---- MODULE Spec2Model ----
(***************************************************************************)
(* Verification model of usAge.                                            *)
(* The rule-based POS tag adjusters:                                       *)
(*   src/src/french-pos-adjustment.py   adjust_pos_tags                    *)
(*   src/src/english-pos-adjustment.py  compose_tagging,                   *)
(*                                      extract_looks_like,                *)
(*                                      identify_auxiliary_verbs           *)
(*   src/src/english-pos-adjustment.py  process_corpus, adjust_pos_tags    *)
(*                                      on the tag lists of the files      *)
(* The text normalizer:                                                    *)
(*   src/src/utils/cleaning_util.py     the cleaning functions of a line   *)
(*   src/src/utils/corpus_util.py       extract_participant_info           *)
(*   src/src/multilingual-text-normalizer.py                               *)
(*                                      clean_transcription,               *)
(*                                      process_corpus on text files       *)
(* The functions of utils that read and write files:                       *)
(*   src/src/utils/data_util.py         save_tags_in_file                  *)
(*   src/src/utils/corpus_util.py       extract_freeling_tags,             *)
(*                                      extract_two_speaker_dialogs        *)
(* Every loop of the source is a state machine: one action per loop        *)
(* iteration, one action for the return.  A Python exception ends the      *)
(* function in pc = "raised", or in a pc that bears the exception's name.  *)
(* A regular expression is an operator on the positions of the text, which *)
(* follows the order in which the matcher of re tries its alternatives;    *)
(* the lines given to the cleaner hold no line break and no white space    *)
(* but " ".                                                                *)
(***************************************************************************)
EXTENDS Integers, Sequences, FiniteSets, TLC

VARIABLES
    pos_tags,           \* french adjust_pos_tags: the list being iterated and mutated
    heap,               \* french: the objects of pos_tags, by identity (index)
    heap0,              \* french: the objects as they were passed in
    zip_tail,           \* french: the copy pos_tags[1:] made by zip(...)
    current_sentence,   \* english passes: the sentence passed in
    adjusted_sentence,  \* english passes: the list being built
    adjustment_count,   \* the running counter of the function
    count_in,           \* english passes: the counter value passed in
    idx,                \* number of loop iterations already taken
    be_pos_flag,        \* compose_tagging
    look_flag,          \* extract_looks_like
    it_flag,            \* extract_looks_like
    as_flag,            \* extract_looks_like
    pc,                 \* position in the function under study
    dialog,             \* cleaning_util: the line passed in
    clean,              \* cleaning_util: the text being cleaned / returned
    measures,           \* the counters returned with clean
    substitutions,      \* replacements made so far by the re.sub calls
    clean_again,        \* text returned when the function is applied to clean
    measures_again,     \* counters returned by that second application
    conf_files,         \* text normalizer: which configuration files are given
    transcription,      \* clean_transcription: the lines passed in
    complete_clean_dialog, \* clean_transcription: the cleaned lines kept
    complete_clean_dialog_syn, \* clean_transcription: the same, synonyms reduced
    cleaning_measures,  \* clean_transcription: the measures records appended
    line_no,            \* clean_transcription: lines the loop has taken
    file_names,         \* process_corpus: the files of the corpus directory
    file_no,            \* process_corpus: files the loop has taken
    cleaning_results,   \* process_corpus: one aggregated record per file
    tags,               \* save_tags_in_file: the list passed in
    tag_file,           \* the text of the file written and read
    extracted,          \* extract_freeling_tags: its list tags
    lines,              \* extract_two_speaker_dialogs: the lines passed in
    speaker_1_dialog,   \* extract_two_speaker_dialogs
    speaker_2_dialog,   \* extract_two_speaker_dialogs
    dialog_count,       \* extract_two_speaker_dialogs: count
    is_morph_code,      \* extract_two_speaker_dialogs
    curr_dialog,        \* extract_two_speaker_dialogs: text, morphology,
                        \* position, speaker code
    corpus_tags,        \* English process_corpus: the tag list of each file
    corpus_file_no,     \* English process_corpus: files the loop has taken
    sentences,          \* adjust_pos_tags: its list dialog
    sentence_no,        \* adjust_pos_tags: sentences the loop has taken
    adjusted_pos_tags,  \* adjust_pos_tags
    adjustment_results, \* process_corpus: the Results object
    stage               \* adjust_pos_tags: the pass that is running

vars == <<pos_tags, heap, heap0, zip_tail, current_sentence, adjusted_sentence,
          adjustment_count, count_in, idx, be_pos_flag, look_flag, it_flag,
          as_flag, pc, dialog, clean, measures, substitutions, clean_again,
          measures_again, conf_files, transcription, complete_clean_dialog,
          complete_clean_dialog_syn, cleaning_measures, line_no, file_names,
          file_no, cleaning_results, tags, tag_file, extracted, lines,
          speaker_1_dialog, speaker_2_dialog, dialog_count, is_morph_code,
          curr_dialog, corpus_tags, corpus_file_no, sentences, sentence_no,
          adjusted_pos_tags, adjustment_results, stage>>

frenchVars == <<pos_tags, heap, heap0, zip_tail>>
flagVars == <<be_pos_flag, look_flag, it_flag, as_flag>>
englishVars == <<current_sentence, adjusted_sentence, count_in>>
lineVars == <<dialog, clean, measures, substitutions, clean_again, measures_again>>
corpusVars == <<conf_files, transcription, complete_clean_dialog,
                complete_clean_dialog_syn, cleaning_measures, line_no,
                file_names, file_no, cleaning_results>>
cleanerVars == <<lineVars, corpusVars>>
taggerVars == <<frenchVars, englishVars, flagVars, adjustment_count>>
tagFileVars == <<tags, tag_file, extracted>>
dialogsVars == <<lines, speaker_1_dialog, speaker_2_dialog, dialog_count,
                 is_morph_code, curr_dialog>>
runVars == <<corpus_tags, corpus_file_no, sentences, sentence_no,
             adjusted_pos_tags, adjustment_results, stage>>
utilVars == <<tagFileVars, dialogsVars, runVars>>

\* The variables of process_corpus and clean_transcription, while one
\* function of cleaning_util is under study.
CorpusIdle ==
    /\ conf_files = <<>> /\ transcription = <<>>
    /\ complete_clean_dialog = "" /\ complete_clean_dialog_syn = ""
    /\ cleaning_measures = <<>> /\ line_no = 0
    /\ file_names = <<>> /\ file_no = 0 /\ cleaning_results = <<>>

\* The variables of the functions of utils that read and write files, while
\* another function is under study.
TagFileIdle == tags = <<>> /\ tag_file = "" /\ extracted = <<>>

DialogsIdle ==
    /\ lines = <<>> /\ speaker_1_dialog = <<>> /\ speaker_2_dialog = <<>>
    /\ dialog_count = 0 /\ is_morph_code = FALSE /\ curr_dialog = <<>>

\* The variables of the English process_corpus and adjust_pos_tags, while
\* another function is under study.
RunIdle ==
    /\ corpus_tags = <<>> /\ corpus_file_no = 0 /\ sentences = <<>>
    /\ sentence_no = 0 /\ adjusted_pos_tags = <<>> /\ adjustment_results = <<>>
    /\ stage = ""

UtilIdle == TagFileIdle /\ DialogsIdle /\ RunIdle

\* The variables of the text cleaner, while a tag adjuster is under study.
CleanerIdle ==
    /\ dialog = "" /\ clean = "" /\ clean_again = ""
    /\ measures = <<>> /\ measures_again = <<>> /\ substitutions = 0
    /\ CorpusIdle

\* The variables of the tag adjusters, while the text cleaner is under study.
TaggerIdle ==
    /\ pos_tags = <<>> /\ heap = <<>> /\ heap0 = <<>> /\ zip_tail = <<>>
    /\ current_sentence = <<>> /\ adjusted_sentence = <<>> /\ count_in = 0
    /\ adjustment_count = 0
    /\ be_pos_flag = FALSE /\ look_flag = FALSE /\ it_flag = FALSE /\ as_flag = FALSE

\* Sequences over S of length at most n.
SeqsUpTo(S, n) == UNION {[1..k -> S] : k \in 0..n}

Last(s) == s[Len(s)]

\* del lst[-1]
DelLast(s) == SubSeq(s, 1, Len(s) - 1)

(***************************************************************************)
(* utils/nlp_util.py                                                       *)
(***************************************************************************)

\* Tag.__init__(self, original="", lemma="", tag=""): three attributes.
Tag(original, lemma, tag) ==
    [type |-> "Tag", original |-> original, lemma |-> lemma, tag |-> tag]

\* The sentence separator of a tag list: the str "\n".
Separator == [type |-> "str", original |-> "\n", lemma |-> "", tag |-> ""]

(***************************************************************************)
(* french-pos-adjustment.py: adjust_pos_tags                               *)
(***************************************************************************)

MaxLenFr == 4

\* str.lower() on the surface forms and lemmas of the model.
Lower(s) ==
    CASE s = "De" -> "de"
      [] s = "LES" -> "les"
      [] s = "Le" -> "le"
      [] s = "Nous" -> "nous"
      [] s = "Sommes" -> "sommes"
      [] OTHER -> s

FrTokens ==
    { Tag("de", "de", "ADP"), Tag("De", "de", "ADP"),
      Tag("les", "le", "DET"), Tag("le", "le", "DET"),
      Tag("nous", "nous", "PRON"), Tag("sommes", "sommer", "VERB"),
      Tag("sommes", "être", "AUX"), Tag("chat", "chat", "NOUN"),
      Separator }

\* list.remove(x): drops the first element equal to x (Tag has no __eq__,
\* so equality is identity).
ListRemove(lst, x) ==
    LET first == CHOOSE i \in 1..Len(lst) :
                    lst[i] = x /\ \A j \in 1..(i - 1) : lst[j] # x
    IN  SubSeq(lst, 1, first - 1) \o SubSeq(lst, first + 1, Len(lst))

\* type(current_tag) is Tag and type(previous_tag) is Tag
BothTags(h, previous_tag, current_tag) ==
    h[current_tag].type = "Tag" /\ h[previous_tag].type = "Tag"

IsDeLes(h, previous_tag, current_tag) ==
    Lower(h[current_tag].original) = "les" /\ Lower(h[previous_tag].original) = "de"

IsDeLe(h, previous_tag, current_tag) ==
    Lower(h[current_tag].original) = "le" /\ Lower(h[previous_tag].original) = "de"

IsNousSommes(h, previous_tag, current_tag) ==
    /\ Lower(h[current_tag].original) = "sommes"
    /\ Lower(h[current_tag].lemma) = "sommer"
    /\ Lower(h[previous_tag].original) = "nous"

FrInit ==
    /\ CleanerIdle /\ UtilIdle
    /\ \E toks \in SeqsUpTo(FrTokens, MaxLenFr) :
          /\ heap = toks
          /\ heap0 = toks
          /\ pos_tags = [i \in 1..Len(toks) |-> i]
          /\ zip_tail = [i \in 1..(Len(toks) - 1) |-> i + 1]
    /\ adjustment_count = 0
    /\ idx = 0
    /\ pc = "loop"
    /\ current_sentence = <<>> /\ adjusted_sentence = <<>> /\ count_in = 0
    /\ be_pos_flag = FALSE /\ look_flag = FALSE /\ it_flag = FALSE /\ as_flag = FALSE

\* One iteration of: for previous_tag, current_tag in zip(pos_tags, pos_tags[1:])
\* The first iterator reads the live list at position idx, the second reads the copy.
FrIterate ==
    /\ pc = "loop"
    /\ idx < Len(pos_tags)
    /\ idx < Len(zip_tail)
    /\ LET previous_tag == pos_tags[idx + 1]
           current_tag == zip_tail[idx + 1]
       IN  IF BothTags(heap, previous_tag, current_tag)
           THEN IF IsDeLes(heap, previous_tag, current_tag)
                THEN /\ heap' = [heap EXCEPT ![current_tag] = Tag("des", "de les", "ADP")]
                     /\ adjustment_count' = adjustment_count + 1
                     /\ pos_tags' = ListRemove(pos_tags, previous_tag)
                ELSE IF IsDeLe(heap, previous_tag, current_tag)
                THEN /\ heap' = [heap EXCEPT ![current_tag] = Tag("du", "de le", "ADP")]
                     /\ adjustment_count' = adjustment_count + 1
                     /\ pos_tags' = ListRemove(pos_tags, previous_tag)
                ELSE IF IsNousSommes(heap, previous_tag, current_tag)
                THEN /\ heap' = [heap EXCEPT ![current_tag] =
                                    Tag(heap[current_tag].original, "être", "ADP")]
                     /\ adjustment_count' = adjustment_count + 1
                     /\ pos_tags' = pos_tags
                ELSE UNCHANGED <<heap, adjustment_count, pos_tags>>
           ELSE UNCHANGED <<heap, adjustment_count, pos_tags>>
    /\ idx' = idx + 1
    /\ UNCHANGED <<utilVars, cleanerVars, heap0, zip_tail, pc, englishVars, flagVars>>

\* zip is exhausted: return pos_tags, adjustment_count
FrReturn ==
    /\ pc = "loop"
    /\ ~(idx < Len(pos_tags) /\ idx < Len(zip_tail))
    /\ pc' = "returned"
    /\ UNCHANGED <<utilVars, cleanerVars, frenchVars, adjustment_count, idx, englishVars, flagVars>>

FrNext == FrIterate \/ FrReturn

SpecFrench == FrInit /\ [][FrNext]_vars

\* C1: when adjust_pos_tags returns, the output holds no "de" immediately
\* followed by "le" or "les" (case-insensitive on the surface form), however
\* many such pairs the input held.
C1_NoDeBeforeLeLes ==
    pc = "returned" =>
        \A i \in 1..(Len(pos_tags) - 1) :
            ~ /\ BothTags(heap, pos_tags[i], pos_tags[i + 1])
              /\ Lower(heap[pos_tags[i]].original) = "de"
              /\ Lower(heap[pos_tags[i + 1]].original) \in {"le", "les"}

\* Position i of the list h holds "sommes"/"sommer" directly after a "nous".
NousSommesAt(h, i) ==
    /\ i >= 2
    /\ h[i].type = "Tag" /\ h[i - 1].type = "Tag"
    /\ h[i].original = "sommes" /\ h[i].lemma = "sommer"
    /\ Lower(h[i - 1].original) = "nous"

\* C10: when adjust_pos_tags returns, every input token "sommes"/"sommer"
\* directly preceded by a "nous" token is still in the list, has lemma "être"
\* and tag ADP, and the counter has counted it.
C10_NousSommesRelemmatized ==
    pc = "returned" =>
        /\ \A i \in 1..Len(heap0) :
              NousSommesAt(heap0, i) =>
                  /\ \E k \in 1..Len(pos_tags) : pos_tags[k] = i
                  /\ heap[i].lemma = "être"
                  /\ heap[i].tag = "ADP"
        /\ adjustment_count >= Cardinality({i \in 1..Len(heap0) : NousSommesAt(heap0, i)})

(***************************************************************************)
(* english-pos-adjustment.py: extract_looks_like                           *)
(***************************************************************************)

MaxLenLook == 4
MaxCountIn == 1

LookTokens ==
    { Tag("it", "it", "PRON"), Tag("looks", "look", "VERB"),
      Tag("like", "like", "ADP"), Tag("as", "as", "ADP"),
      Tag("though", "though", "ADP"), Tag("if", "if", "ADP"),
      Tag("dog", "dog", "NOUN") }

LookInit ==
    /\ CleanerIdle /\ UtilIdle
    /\ current_sentence \in SeqsUpTo(LookTokens, MaxLenLook)
    /\ count_in \in 0..MaxCountIn
    /\ adjustment_count = count_in
    /\ adjusted_sentence = <<>>
    /\ look_flag = FALSE /\ it_flag = FALSE /\ as_flag = FALSE
    /\ idx = 0
    /\ pc = "loop"
    /\ be_pos_flag = FALSE
    /\ pos_tags = <<>> /\ heap = <<>> /\ heap0 = <<>> /\ zip_tail = <<>>

\* A "like" branch that deletes two tokens whenever look_flag is set.
LikeBranchSentenceDeletesTwo(adj, pos_tag, look, it) ==
    IF look THEN DelLast(DelLast(adj)) ELSE Append(adj, pos_tag)

\* The "like" branch (lines 418-433): what becomes of the output list and the
\* counter.
LikeBranchSentence(adj, pos_tag, look, it) ==
    IF look
    THEN IF it THEN DelLast(DelLast(adj)) ELSE DelLast(adj)
    ELSE Append(adj, pos_tag)

LikeBranchCount(count, look, it) ==
    IF look THEN (IF it THEN count + 2 ELSE count + 1) ELSE count

\* The "though"/"if" branch (lines 441-455).
ThoughIfBranchSentence(adj, pos_tag, as, it) ==
    IF as
    THEN IF it THEN DelLast(DelLast(DelLast(adj))) ELSE DelLast(DelLast(adj))
    ELSE adj

ThoughIfBranchCount(count, as, it) ==
    IF as THEN (IF it THEN count + 3 ELSE count + 2) ELSE count

\* One iteration of: for pos_tag in current_sentence (lines 405-460)
LookIterate ==
    /\ pc = "loop"
    /\ idx < Len(current_sentence)
    /\ LET pos_tag == current_sentence[idx + 1]
       IN  IF pos_tag.lemma = "it"
           THEN /\ adjusted_sentence' = Append(adjusted_sentence, pos_tag)
                /\ it_flag' = TRUE
                /\ UNCHANGED <<look_flag, as_flag, adjustment_count>>
           ELSE IF pos_tag.lemma = "look"
           THEN /\ adjusted_sentence' = Append(adjusted_sentence, pos_tag)
                /\ look_flag' = TRUE
                /\ UNCHANGED <<it_flag, as_flag, adjustment_count>>
           ELSE IF pos_tag.lemma = "like"
           THEN /\ adjusted_sentence' =
                       LikeBranchSentence(adjusted_sentence, pos_tag, look_flag, it_flag)
                /\ adjustment_count' = LikeBranchCount(adjustment_count, look_flag, it_flag)
                /\ look_flag' = FALSE /\ it_flag' = FALSE /\ as_flag' = FALSE
           ELSE IF pos_tag.lemma = "as"
           THEN /\ as_flag' = (IF look_flag THEN TRUE ELSE as_flag)
                /\ adjusted_sentence' = Append(adjusted_sentence, pos_tag)
                /\ UNCHANGED <<look_flag, it_flag, adjustment_count>>
           ELSE IF pos_tag.lemma = "though" \/ pos_tag.lemma = "if"
           THEN /\ adjusted_sentence' =
                       ThoughIfBranchSentence(adjusted_sentence, pos_tag, as_flag, it_flag)
                /\ adjustment_count' = ThoughIfBranchCount(adjustment_count, as_flag, it_flag)
                /\ look_flag' = FALSE /\ it_flag' = FALSE /\ as_flag' = FALSE
           ELSE /\ adjusted_sentence' = Append(adjusted_sentence, pos_tag)
                /\ look_flag' = FALSE /\ it_flag' = FALSE /\ as_flag' = FALSE
                /\ UNCHANGED adjustment_count
    /\ idx' = idx + 1
    /\ UNCHANGED <<utilVars, cleanerVars, current_sentence, count_in, pc, be_pos_flag, frenchVars>>

\* A return that first writes the result over the list passed in
\* (current_sentence[:] = adjusted_sentence).
LookReturnOverInput ==
    /\ pc = "loop"
    /\ idx >= Len(current_sentence)
    /\ current_sentence' = adjusted_sentence
    /\ pc' = "returned"
    /\ UNCHANGED <<utilVars, cleanerVars, adjusted_sentence, adjustment_count, count_in,
                   idx, flagVars, frenchVars>>

\* return adjusted_sentence, adjustment_count (line 462)
LookReturn ==
    /\ pc = "loop"
    /\ idx >= Len(current_sentence)
    /\ pc' = "returned"
    /\ UNCHANGED <<utilVars, cleanerVars, current_sentence, adjusted_sentence, adjustment_count, count_in,
                   idx, flagVars, frenchVars>>

LookNext == LookIterate \/ LookReturn

SpecLooksLike == LookInit /\ [][LookNext]_vars

Lemmas(s) == [i \in 1..Len(s) |-> s[i].lemma]

\* The number of retroactively deleted tokens of the construction that the
\* token at position i of sentence s completes: look like (1), it look like (2),
\* look as though|if (2), it look as though|if (3); 0 when it completes none.
ConstructionSize(s, i) ==
    IF s[i].lemma = "like" /\ i >= 2 /\ s[i - 1].lemma = "look"
    THEN (IF i >= 3 /\ s[i - 2].lemma = "it" THEN 2 ELSE 1)
    ELSE IF /\ s[i].lemma \in {"though", "if"}
            /\ i >= 3 /\ s[i - 1].lemma = "as" /\ s[i - 2].lemma = "look"
    THEN (IF i >= 4 /\ s[i - 3].lemma = "it" THEN 3 ELSE 2)
    ELSE 0

\* C2: when extract_looks_like returns for a sentence without any token of
\* lemma "look", the output equals the input and the counter is the one
\* passed in.
C2_NoLookNoChange ==
    (pc = "returned" /\ \A i \in 1..Len(current_sentence) :
                            current_sentence[i].lemma # "look")
        => /\ adjusted_sentence = current_sentence
           /\ adjustment_count = count_in

\* C3: every step that deletes tokens from the output deletes exactly the
\* tokens that stand immediately before the completing token in the input,
\* and they are, in order, [it] look for "like" and [it] look as for
\* "though"/"if".
C3_DeletesOneAdjacentConstruction ==
    [][ (pc = "loop" /\ Len(adjusted_sentence') < Len(adjusted_sentence)) =>
            LET k == Len(adjusted_sentence) - Len(adjusted_sentence')
                deleted == SubSeq(adjusted_sentence, Len(adjusted_sentence') + 1,
                                  Len(adjusted_sentence))
                completing == current_sentence[idx + 1].lemma
            IN  /\ k <= idx
                /\ deleted = SubSeq(current_sentence, idx - k + 1, idx)
                /\ Lemmas(deleted) \in
                      (IF completing = "like"
                       THEN {<<"look">>, <<"it", "look">>}
                       ELSE {<<"look", "as">>, <<"it", "look", "as">>})
      ]_vars

\* C4: the step that examines the completing like/though/if of an adjacent
\* construction removes exactly the construction's earlier tokens from the
\* output, does not append the completing token, and adds the construction's
\* size (1, 2, 2 or 3) to the counter.
C4_ConstructionRemovedAndCounted ==
    [][ (/\ pc = "loop"
         /\ idx < Len(current_sentence)
         /\ idx' = idx + 1
         /\ ConstructionSize(current_sentence, idx + 1) > 0) =>
            LET n == ConstructionSize(current_sentence, idx + 1)
            IN  /\ adjusted_sentence' =
                      SubSeq(adjusted_sentence, 1, Len(adjusted_sentence) - n)
                /\ adjustment_count' = adjustment_count + n
      ]_vars

\* The lemmas whose branch of extract_looks_like leaves the flags as they are
\* or sets one; the branch of every other lemma ends with the three resets.
FlagLemmas == {"it", "look", "as"}

\* The number of tokens examined since the last flag reset, when the first i
\* tokens of s have been examined.
SinceReset(s, i) ==
    Cardinality({j \in 1..i : \A r \in j..i : s[r].lemma \in FlagLemmas})

\* C29: a step of extract_looks_like that executes k del statements finds at
\* least k tokens in the output and removes its last k; they are the k tokens
\* examined last, all of them examined (and appended) after the last flag
\* reset, and each has lemma look, as or it.
C29_DeletesOnlySinceReset ==
    [][ (pc = "loop" /\ adjustment_count' > adjustment_count) =>
            LET k == adjustment_count' - adjustment_count
                n == Len(adjusted_sentence)
                deleted == SubSeq(adjusted_sentence, n - k + 1, n)
            IN  /\ k <= n
                /\ adjusted_sentence' = SubSeq(adjusted_sentence, 1, n - k)
                /\ k <= SinceReset(current_sentence, idx)
                /\ deleted = SubSeq(current_sentence, idx - k + 1, idx)
                /\ \A i \in 1..k : deleted[i].lemma \in FlagLemmas
      ]_vars

\* extract_looks_like has returned after a step that deleted three tokens
\* from an output of three.
C29_Witness ==
    /\ pc = "returned"
    /\ adjustment_count - count_in = 3
    /\ Len(current_sentence) = 4
    /\ adjusted_sentence = <<>>

(***************************************************************************)
(* english-pos-adjustment.py: the Tag(...) calls of the repairs            *)
(***************************************************************************)

\* The positional parameters of Tag.__init__ after self (nlp_util.py).
TagInitParams == <<"original", "lemma", "tag">>

\* The names class UniversalPOS defines (nlp_util.py).
UniversalPOSAttrs ==
    { "ADJ_TAG", "ADP_TAG", "ADV_TAG", "AUX_TAG", "CONJ_TAG", "CCONJ_TAG",
      "DET_TAG", "INTJ_TAG", "NOUN_TAG", "NUM_TAG", "PART_TAG", "PRON_TAG",
      "PUNCT_TAG", "SCONJ_TAG", "VERB_TAG", "UNIVERSAL_TAGSET" }

\* obj.name exists
HasAttr(obj, name) == name \in DOMAIN obj

\* Every repair evaluates Tag(a, b, c, current_tag.certainty): reading the
\* attribute certainty raises AttributeError on an object that has none, and
\* a call with four positional arguments raises TypeError when __init__
\* takes fewer.
RepairCallRaises(current_tag) ==
    \/ ~HasAttr(current_tag, "certainty")
    \/ Len(TagInitParams) < Len(<<"original", "lemma", "tag", "certainty">>)

\* str.endswith
EndsWith(str, suffix) ==
    /\ Len(str) >= Len(suffix)
    /\ SubSeq(str, Len(str) - Len(suffix) + 1, Len(str)) = suffix

(***************************************************************************)
(* english-pos-adjustment.py: compose_tagging                              *)
(***************************************************************************)

MaxLenCompose == 4

ComposeTokens ==
    { Tag("throat", "throat", "NOUN"), Tag("throats", "throat", "NOUN"),
      Tag("'s", "'s", "ADP"), Tag("'re", "'re", "VERB"),
      Tag("sleeping", "sleep", "NOUN"), Tag("walking", "walk", "VERB"),
      Tag("cat", "cat", "NOUN") }

\* A variant of the test of line 177 that looks at the surface form.
IsThroatBySurface(current_tag) == current_tag.original = "throat"

\* line 177
IsThroat(current_tag) == current_tag.lemma = "throat"

\* line 181
IsUnlemmatizedRe(current_tag) ==
    current_tag.tag = "VERB" /\ current_tag.original = "'re" /\ current_tag.lemma = "'re"

\* lines 187 and 191
IsMistaggedIng(current_tag, flag) ==
    flag /\ EndsWith(current_tag.original, "ing") /\ current_tag.tag # "VERB"

\* line 198
IsPossessiveS(current_tag) ==
    current_tag.tag = "ADP" /\ current_tag.original = "'s" /\ current_tag.lemma = "'s"

\* Whether the iteration on current_tag reaches one of the three Tag(...) calls.
ComposeRepairs(current_tag, flag) ==
    \/ IsUnlemmatizedRe(current_tag)
    \/ IsMistaggedIng(current_tag, flag)
    \/ IsPossessiveS(current_tag)

\* adjusted_tag at line 205: the last of the three assignments that applies.
ComposeAdjustedTag(current_tag, flag) ==
    IF IsPossessiveS(current_tag)
    THEN Tag(current_tag.original, "be", "VERB")
    ELSE IF IsMistaggedIng(current_tag, flag)
    THEN Tag(current_tag.original, current_tag.lemma, "VERB")
    ELSE IF IsUnlemmatizedRe(current_tag)
    THEN Tag(current_tag.original, "be", current_tag.tag)
    ELSE current_tag

\* adjustment_count after the iteration: one increment per repair.
ComposeCount(count, current_tag, flag) ==
    count + (IF IsUnlemmatizedRe(current_tag) THEN 1 ELSE 0)
          + (IF IsMistaggedIng(current_tag, flag) THEN 1 ELSE 0)
          + (IF IsPossessiveS(current_tag) THEN 1 ELSE 0)

\* be_pos_flag after the iteration (lines 195-196 and 202).
ComposeFlag(current_tag, flag) ==
    IF IsPossessiveS(current_tag) THEN TRUE
    ELSE IF flag /\ current_tag.lemma # "throat" THEN FALSE
    ELSE flag

ComposeInit ==
    /\ CleanerIdle /\ UtilIdle
    /\ current_sentence \in SeqsUpTo(ComposeTokens, MaxLenCompose)
    /\ count_in \in 0..MaxCountIn
    /\ adjustment_count = count_in
    /\ adjusted_sentence = <<>>
    /\ be_pos_flag = FALSE
    /\ idx = 0
    /\ pc = "loop"
    /\ look_flag = FALSE /\ it_flag = FALSE /\ as_flag = FALSE
    /\ pos_tags = <<>> /\ heap = <<>> /\ heap0 = <<>> /\ zip_tail = <<>>

\* An iteration that ends at "continue" (lines 177-179).
ComposeSkip ==
    /\ pc = "loop"
    /\ idx < Len(current_sentence)
    /\ IsThroat(current_sentence[idx + 1])
    /\ idx' = idx + 1
    /\ UNCHANGED <<utilVars, cleanerVars, current_sentence, adjusted_sentence, adjustment_count, count_in,
                   pc, flagVars, frenchVars>>

\* An iteration that reaches line 205.
ComposeIterate ==
    /\ pc = "loop"
    /\ idx < Len(current_sentence)
    /\ LET current_tag == current_sentence[idx + 1]
       IN  /\ ~IsThroat(current_tag)
           /\ ~(ComposeRepairs(current_tag, be_pos_flag) /\ RepairCallRaises(current_tag))
           /\ adjusted_sentence' =
                 Append(adjusted_sentence, ComposeAdjustedTag(current_tag, be_pos_flag))
           /\ adjustment_count' = ComposeCount(adjustment_count, current_tag, be_pos_flag)
           /\ be_pos_flag' = ComposeFlag(current_tag, be_pos_flag)
    /\ idx' = idx + 1
    /\ UNCHANGED <<utilVars, cleanerVars, current_sentence, count_in, pc, look_flag, it_flag, as_flag,
                   frenchVars>>

\* An iteration whose Tag(...) call raises: the function ends without a result.
ComposeRaise ==
    /\ pc = "loop"
    /\ idx < Len(current_sentence)
    /\ LET current_tag == current_sentence[idx + 1]
       IN  /\ ~IsThroat(current_tag)
           /\ ComposeRepairs(current_tag, be_pos_flag)
           /\ RepairCallRaises(current_tag)
    /\ pc' = "raised"
    /\ UNCHANGED <<utilVars, cleanerVars, current_sentence, adjusted_sentence, adjustment_count, count_in,
                   idx, flagVars, frenchVars>>

\* return adjusted_sentence, adjustment_count (line 207)
ComposeReturn ==
    /\ pc = "loop"
    /\ idx >= Len(current_sentence)
    /\ pc' = "returned"
    /\ UNCHANGED <<utilVars, cleanerVars, current_sentence, adjusted_sentence, adjustment_count, count_in,
                   idx, flagVars, frenchVars>>

ComposeNext == ComposeSkip \/ ComposeIterate \/ ComposeRaise \/ ComposeReturn

SpecCompose == ComposeInit /\ [][ComposeNext]_vars

\* The most recent non-throat token before position i of s is an ADP 's/'s.
AfterPossessiveS(s, i) ==
    \E j \in 1..(i - 1) :
        /\ s[j].tag = "ADP" /\ s[j].original = "'s" /\ s[j].lemma = "'s"
        /\ \A k \in (j + 1)..(i - 1) : s[k].lemma = "throat"

NonThroat(s) == SelectSeq(s, LAMBDA t : t.lemma # "throat")

Originals(s) == [i \in 1..Len(s) |-> s[i].original]

ThroatCount(s) == Cardinality({i \in 1..Len(s) : s[i].lemma = "throat"})

\* C5: the iteration on an ADP 's/'s token appends ('s, be, VERB) and adds 1
\* to the counter; the iteration on the next non-throat token, when its
\* surface form ends in "ing" and its tag is not VERB, appends it retagged
\* VERB (surface form and lemma kept) and adds 1 to the counter.
C5_PossessiveSAndIngRepaired ==
    [][ (pc = "loop" /\ idx < Len(current_sentence)) =>
            LET t == current_sentence[idx + 1]
            IN  /\ (t.tag = "ADP" /\ t.original = "'s" /\ t.lemma = "'s") =>
                      /\ adjusted_sentence' =
                            Append(adjusted_sentence, Tag("'s", "be", "VERB"))
                      /\ adjustment_count' = adjustment_count + 1
                /\ (/\ t.lemma # "throat"
                    /\ EndsWith(t.original, "ing") /\ t.tag # "VERB"
                    /\ AfterPossessiveS(current_sentence, idx + 1)) =>
                      /\ adjusted_sentence' =
                            Append(adjusted_sentence, Tag(t.original, t.lemma, "VERB"))
                      /\ adjustment_count' = adjustment_count + 1
      ]_vars

C9_ThroatTokensDropped ==
    /\ [](pc = "returned" =>
            /\ Originals(adjusted_sentence) = Originals(NonThroat(current_sentence))
            /\ Len(adjusted_sentence) =
                  Len(current_sentence) - ThroatCount(current_sentence))
    /\ [][ (/\ pc = "loop" /\ idx < Len(current_sentence)
            /\ current_sentence[idx + 1].lemma = "throat") =>
               /\ adjustment_count' = adjustment_count
               /\ adjusted_sentence' = adjusted_sentence ]_vars

\* compose_tagging has returned a non-empty output for a sentence that held
\* throat tokens.
C9_Witness ==
    /\ pc = "returned"
    /\ ThroatCount(current_sentence) >= 1
    /\ Len(adjusted_sentence) >= 1

(***************************************************************************)
(* english-pos-adjustment.py: identify_auxiliary_verbs                     *)
(***************************************************************************)

MaxLenAux == 4

AuxTokens ==
    { Tag("can", "can", "VERB"), Tag("can", "can", "NOUN"),
      Tag("may", "may", "VERB"), Tag("do", "do", "VERB"),
      Tag("is", "be", "VERB"), Tag("swim", "swim", "VERB"),
      Tag("not", "not", "ADV") }

\* The lemmas of the condition of lines 502-503.
NextVerbLemmas == {"be", "can", "have", "may", "must", "should", "will"}

\* The lemmas of the condition of lines 516-517.
SecondNextVerbLemmas == {"do", "may", "must", "need", "shall", "would"}

\* Lines 502-504, for the token at position i (1-based; idx = i - 1).
FollowedByVerb(s, i) ==
    /\ s[i].lemma \in NextVerbLemmas
    /\ s[i].tag = "VERB"
    /\ i - 1 < Len(s) - 1
    /\ s[i + 1].tag = "VERB"

\* Lines 516-518, reached only when the condition of line 502 is false.
FollowedTwoAheadByVerb(s, i) ==
    /\ ~FollowedByVerb(s, i)
    /\ s[i].lemma \in SecondNextVerbLemmas
    /\ s[i].tag = "VERB"
    /\ i - 1 < Len(s) - 2
    /\ s[i + 2].tag = "VERB"

\* Lines 505 and 519 evaluate UniversalPOS.AUX_VERB_TAG and current_tag.certainty
\* and call Tag with four arguments.
AuxRetagRaises(current_tag) ==
    \/ "AUX_VERB_TAG" \notin UniversalPOSAttrs
    \/ RepairCallRaises(current_tag)

AuxInit ==
    /\ CleanerIdle /\ UtilIdle
    /\ current_sentence \in SeqsUpTo(AuxTokens, MaxLenAux)
    /\ count_in \in 0..MaxCountIn
    /\ adjustment_count = count_in
    /\ adjusted_sentence = <<>>
    /\ idx = 0
    /\ pc = "loop"
    /\ be_pos_flag = FALSE /\ look_flag = FALSE /\ it_flag = FALSE /\ as_flag = FALSE
    /\ pos_tags = <<>> /\ heap = <<>> /\ heap0 = <<>> /\ zip_tail = <<>>

\* An iteration that reaches line 522.
AuxIterate ==
    /\ pc = "loop"
    /\ idx < Len(current_sentence)
    /\ LET current_tag == current_sentence[idx + 1]
           retag == \/ FollowedByVerb(current_sentence, idx + 1)
                    \/ FollowedTwoAheadByVerb(current_sentence, idx + 1)
       IN  /\ ~(retag /\ AuxRetagRaises(current_tag))
           /\ adjusted_sentence' =
                 Append(adjusted_sentence,
                        IF retag   \* the value UniversalPOS.AUX_VERB_TAG would name
                        THEN Tag(current_tag.original, current_tag.lemma, "AUX_VERB")
                        ELSE current_tag)
           /\ adjustment_count' = (IF retag THEN adjustment_count + 1
                                            ELSE adjustment_count)
    /\ idx' = idx + 1
    /\ UNCHANGED <<utilVars, cleanerVars, current_sentence, count_in, pc, flagVars, frenchVars>>

\* An iteration whose Tag(...) call of line 505 or 519 raises.
AuxRaise ==
    /\ pc = "loop"
    /\ idx < Len(current_sentence)
    /\ \/ FollowedByVerb(current_sentence, idx + 1)
       \/ FollowedTwoAheadByVerb(current_sentence, idx + 1)
    /\ AuxRetagRaises(current_sentence[idx + 1])
    /\ pc' = "raised"
    /\ UNCHANGED <<utilVars, cleanerVars, current_sentence, adjusted_sentence, adjustment_count, count_in,
                   idx, flagVars, frenchVars>>

\* return adjusted_sentence, adjustment_count (line 524)
AuxReturn ==
    /\ pc = "loop"
    /\ idx >= Len(current_sentence)
    /\ pc' = "returned"
    /\ UNCHANGED <<utilVars, cleanerVars, current_sentence, adjusted_sentence, adjustment_count, count_in,
                   idx, flagVars, frenchVars>>

AuxNext == AuxIterate \/ AuxRaise \/ AuxReturn

SpecAuxiliary == AuxInit /\ [][AuxNext]_vars

\* C7: the iteration on a VERB token of lemma be, can, have, may, must, should
\* or will whose next token is tagged VERB appends it retagged AUX_VERB and
\* adds 1 to the counter; a token of lemma be, can, have, should or will that
\* is last or followed by a non-VERB token is appended unchanged with the
\* counter unchanged; every iteration appends one token with the surface form
\* and lemma of the input token.
C7_AuxiliaryBeforeVerbRetagged ==
    [][ (pc = "loop" /\ idx < Len(current_sentence)) =>
            LET i == idx + 1
                t == current_sentence[i]
                nextIsVerb == i < Len(current_sentence)
                              /\ current_sentence[i + 1].tag = "VERB"
            IN  /\ Len(adjusted_sentence') = Len(adjusted_sentence) + 1
                /\ Last(adjusted_sentence').original = t.original
                /\ Last(adjusted_sentence').lemma = t.lemma
                /\ (/\ t.tag = "VERB" /\ nextIsVerb
                    /\ t.lemma \in {"be", "can", "have", "may", "must", "should", "will"}) =>
                      /\ Last(adjusted_sentence').tag = "AUX_VERB"
                      /\ adjustment_count' = adjustment_count + 1
                /\ (t.lemma \in {"be", "can", "have", "should", "will"} /\ ~nextIsVerb) =>
                      /\ Last(adjusted_sentence') = t
                      /\ adjustment_count' = adjustment_count
      ]_vars

\* C8: the iteration on a VERB token of lemma do, may, must, need, shall or
\* would whose token two positions ahead is tagged VERB appends it retagged
\* AUX_VERB, and adds exactly 1 to the counter (also for may and must when
\* the next token is a VERB as well).
C8_AuxiliaryTwoBeforeVerbRetagged ==
    [][ (/\ pc = "loop" /\ idx + 2 < Len(current_sentence)
         /\ current_sentence[idx + 1].tag = "VERB"
         /\ current_sentence[idx + 1].lemma \in
               {"do", "may", "must", "need", "shall", "would"}
         /\ current_sentence[idx + 3].tag = "VERB") =>
            /\ adjusted_sentence' =
                  Append(adjusted_sentence,
                         Tag(current_sentence[idx + 1].original,
                             current_sentence[idx + 1].lemma, "AUX_VERB"))
            /\ adjustment_count' = adjustment_count + 1
      ]_vars

\* The token at position i of the input sentence s is a VERB of an auxiliary
\* lemma and the input tag one position ahead (first lemma list) or two
\* positions ahead (second list) is VERB.
QualifiesOnInput(s, i) ==
    /\ s[i].tag = "VERB"
    /\ \/ /\ s[i].lemma \in {"be", "can", "have", "may", "must", "should", "will"}
          /\ i + 1 <= Len(s) /\ s[i + 1].tag = "VERB"
       \/ /\ s[i].lemma \in {"do", "may", "must", "need", "shall", "would"}
          /\ i + 2 <= Len(s) /\ s[i + 2].tag = "VERB"

\* C28: identify_auxiliary_verbs decides every token on the tags of the input
\* sentence: the iteration on a qualifying token appends it retagged AUX_VERB
\* and goes on, also when the token before it qualified and was retagged (a
\* run such as can/VERB be/VERB swim/VERB), the iteration on any other token
\* appends it as it is, and the output returned is the input with exactly the
\* qualifying tokens retagged.
C28_AuxiliaryDecidedOnInputTags ==
    /\ [][ (pc = "loop" /\ idx < Len(current_sentence)) =>
              LET t == current_sentence[idx + 1]
              IN  /\ pc' = "loop"
                  /\ adjusted_sentence' =
                        Append(adjusted_sentence,
                               IF QualifiesOnInput(current_sentence, idx + 1)
                               THEN Tag(t.original, t.lemma, "AUX_VERB")
                               ELSE t) ]_vars
    /\ [](pc = "returned" =>
            /\ Len(adjusted_sentence) = Len(current_sentence)
            /\ \A i \in 1..Len(current_sentence) :
                  adjusted_sentence[i].tag = "AUX_VERB"
                      <=> QualifiesOnInput(current_sentence, i))

(***************************************************************************)
(* Text: a line of a transcript is a string; the regular expressions of    *)
(* utils/cleaning_util.py are computed on it position by position, in the  *)
(* order in which the backtracking matcher of re tries the alternatives.   *)
(* No line of the model holds a line break, so '.' matches every character.*)
(***************************************************************************)

\* The slice of s from position i to position j, cut to the positions s has.
Sub(s, i, j) ==
    LET lo == IF i < 1 THEN 1 ELSE i
        hi == IF j > Len(s) THEN Len(s) ELSE j
    IN  IF lo > hi THEN "" ELSE SubSeq(s, lo, hi)

\* The character of s at position i, "" past either end.
Char(s, i) == Sub(s, i, i)

From(s, i) == Sub(s, i, Len(s))

Min(S) == CHOOSE m \in UNION {{x \in T : \A y \in T : x <= y} : T \in {S}} : TRUE

Max(S) == CHOOSE m \in UNION {{x \in T : \A y \in T : x >= y} : T \in {S}} : TRUE

RECURSIVE Join(_)
Join(q) == IF q = <<>> THEN "" ELSE Head(q) \o Join(Tail(q))

\* The lines made of at most n of the segments P.
Lines(P, n) == {Join(q) : q \in SeqsUpTo(P, n)}

AsciiLower ==
    {"a", "b", "c", "d", "e", "f", "g", "h", "i", "j", "k", "l", "m",
     "n", "o", "p", "q", "r", "s", "t", "u", "v", "w", "x", "y", "z"}

AsciiUpper ==
    {"A", "B", "C", "D", "E", "F", "G", "H", "I", "J", "K", "L", "M",
     "N", "O", "P", "Q", "R", "S", "T", "U", "V", "W", "X", "Y", "Z"}

Digits == {"0", "1", "2", "3", "4", "5", "6", "7", "8", "9"}

\* The range À-ÿ of the character classes (U+00C0 to U+00FF).
Latin1Range ==
    {"À", "Á", "Â", "Ã", "Ä", "Å", "Æ", "Ç", "È", "É", "Ê", "Ë", "Ì", "Í", "Î", "Ï",
     "Ð", "Ñ", "Ò", "Ó", "Ô", "Õ", "Ö", "×", "Ø", "Ù", "Ú", "Û", "Ü", "Ý", "Þ", "ß",
     "à", "á", "â", "ã", "ä", "å", "æ", "ç", "è", "é", "ê", "ë", "ì", "í", "î", "ï",
     "ð", "ñ", "ò", "ó", "ô", "õ", "ö", "÷", "ø", "ù", "ú", "û", "ü", "ý", "þ", "ÿ"}

\* \s on the lines of the model, which hold no tab and no line break.
IsSpace(c) == c = " "

\* The length of the run of spaces of s that starts at position i.
RECURSIVE SpaceRun(_, _)
SpaceRun(s, i) ==
    IF i <= Len(s) /\ IsSpace(Char(s, i)) THEN 1 + SpaceRun(s, i + 1) ELSE 0

\* re.sub(r'\s\s+', ' ', dialog): every run of two or more spaces becomes one.
RECURSIVE CollapseFrom(_, _)
CollapseFrom(s, i) ==
    IF \A j \in i..Len(s) : SpaceRun(s, j) < 2 THEN From(s, i)
    ELSE CHOOSE text \in
             {Sub(s, i, j - 1) \o " " \o CollapseFrom(s, j + SpaceRun(s, j)) :
                 j \in {Min({k \in i..Len(s) : SpaceRun(s, k) >= 2})}} : TRUE

CollapseSpaces(s) == CollapseFrom(s, 1)

\* t occurs in s at position i.
OccursAt(s, t, i) == i >= 1 /\ i + Len(t) - 1 <= Len(s) /\ Sub(s, i, i + Len(t) - 1) = t

\* t occurs in s at or after position i (the lookahead .*t).
OccursFrom(s, t, i) == \E j \in i..(Len(s) + 1) : OccursAt(s, t, j)

(***************************************************************************)
(* utils/cleaning_util.py: remove_errors                                   *)
(***************************************************************************)

MaxErrSegments == 4

ErrSegments ==
    {"he had two ", "mouses", " [: mice]", " [*] yesterday",
     "<two mouse> ", "mouses [:", "[: mice]", "]"}

\* [a-zA-Z0-9À-ÿ_\']
AnnotatedWordChars ==
    AsciiLower \cup AsciiUpper \cup Digits \cup Latin1Range \cup {"_", "'"}

\* The positions c >= i of s that hold the closing bracket.
ClosingFrom(s, i) == {c \in i..Len(s) : Char(s, c) = "]"}

\* '(.*)<.+?>\s\[:(.+?)\](.*)' with '<' at position a: the positions of the
\* '>' that let the rest of the pattern match.
ErrPhraseEnds(s, a) ==
    {b \in (a + 2)..Len(s) :
        /\ Char(s, b) = ">" /\ IsSpace(Char(s, b + 1))
        /\ Sub(s, b + 2, b + 3) = "[:"
        /\ ClosingFrom(s, b + 5) # {}}

ErrPhraseStarts(s) ==
    {a \in 1..Len(s) : Char(s, a) = "<" /\ ErrPhraseEnds(s, a) # {}}

\* re.search of the first pattern of remove_errors.
ErrPhraseSearch(s) == ErrPhraseStarts(s) # {}

\* re.sub(p, r'\1\2\3', clean): the greedy (.*) takes the last '<' that
\* matches, the lazy <.+?> and (.+?) the first '>' and the first ']'.  The
\* match runs to the end of the line, so there is one replacement.
\* The match is '<' at a, '>' at b, ']' at c.
ErrPhraseSubAt(s, a, b, c) ==
    Sub(s, 1, a - 1) \o Sub(s, b + 4, c - 1) \o From(s, c + 1)

ErrPhraseSub(s) ==
    LET a == Max(ErrPhraseStarts(s))
        b == Min(ErrPhraseEnds(s, a))
        c == Min(ClosingFrom(s, b + 5))
    IN  ErrPhraseSubAt(s, a, b, c)

\* The first position after p that holds no character of the word class.
ErrWordEnd(s, p) ==
    Min({q \in p..(Len(s) + 1) :
            q = Len(s) + 1 \/ Char(s, q) \notin AnnotatedWordChars})

\* '(.*?)([a-zA-Z0-9À-ÿ_\']+?)\s\[:(.+?)\](.*)' with group 2 starting at p.
ErrWordStarts(s) ==
    {p \in 1..Len(s) :
        /\ Char(s, p) \in AnnotatedWordChars
        /\ \E q \in {ErrWordEnd(s, p)} :
               /\ q <= Len(s) /\ IsSpace(Char(s, q))
               /\ Sub(s, q + 1, q + 2) = "[:"
               /\ ClosingFrom(s, q + 4) # {}}

\* re.search of the second pattern of remove_errors.
ErrWordSearch(s) == ErrWordStarts(s) # {}

\* A replacement r'\1\2 [:\3]\4', which puts the whole match back.
ErrWordSubAtWholeMatch(s, p, q, c) == s

\* re.sub(p, r'\1\3\4', clean): the lazy (.*?) stops at the first position
\* from which a word, a space and '[:' follow.
\* The word starts at p and ends before q, ']' is at c.
ErrWordSubAt(s, p, q, c) ==
    Sub(s, 1, p - 1) \o Sub(s, q + 3, c - 1) \o From(s, c + 1)

ErrWordSub(s) ==
    LET p == Min(ErrWordStarts(s))
        q == ErrWordEnd(s, p)
        c == Min(ClosingFrom(s, q + 4))
    IN  ErrWordSubAt(s, p, q, c)

ErrInit ==
    /\ TaggerIdle /\ UtilIdle
    /\ dialog \in Lines(ErrSegments, MaxErrSegments)
    /\ clean = "" /\ measures = [nbErrors |-> 0] /\ substitutions = 0
    /\ clean_again = "" /\ measures_again = <<>>
    /\ CorpusIdle
    /\ idx = 0
    /\ pc = "start"

\* clean = re.sub(r'\s\s+', ' ', dialog); no_errors = 0
ErrStart ==
    /\ pc = "start"
    /\ clean' = CollapseSpaces(dialog)
    /\ pc' = "phrases"
    /\ UNCHANGED <<utilVars, taggerVars, corpusVars, dialog, measures, substitutions,
                   clean_again, measures_again, idx>>

\* One iteration of the first while loop.
ErrPhraseIterate ==
    /\ pc = "phrases"
    /\ ErrPhraseSearch(clean)
    /\ measures' = [nbErrors |-> measures.nbErrors + 1]
    /\ \E a \in {Max(ErrPhraseStarts(clean))} :
       \E b \in {Min(ErrPhraseEnds(clean, a))} :
       \E c \in {Min(ClosingFrom(clean, b + 5))} :
           clean' = ErrPhraseSubAt(clean, a, b, c)
    /\ substitutions' = substitutions + 1
    /\ UNCHANGED <<utilVars, taggerVars, corpusVars, dialog, clean_again, measures_again,
                   idx, pc>>

\* The first loop ends; the second pattern is compiled.
ErrPhraseExit ==
    /\ pc = "phrases"
    /\ ~ErrPhraseSearch(clean)
    /\ pc' = "words"
    /\ UNCHANGED <<utilVars, taggerVars, corpusVars, lineVars, idx>>

\* One iteration of the second while loop.
ErrWordIterate ==
    /\ pc = "words"
    /\ ErrWordSearch(clean)
    /\ measures' = [nbErrors |-> measures.nbErrors + 1]
    /\ \E p \in {Min(ErrWordStarts(clean))} :
       \E q \in {ErrWordEnd(clean, p)} :
       \E c \in {Min(ClosingFrom(clean, q + 4))} :
           clean' = ErrWordSubAt(clean, p, q, c)
    /\ substitutions' = substitutions + 1
    /\ UNCHANGED <<utilVars, taggerVars, corpusVars, dialog, clean_again, measures_again,
                   idx, pc>>

\* return (clean, no_errors)
ErrReturn ==
    /\ pc = "words"
    /\ ~ErrWordSearch(clean)
    /\ pc' = "returned"
    /\ UNCHANGED <<utilVars, taggerVars, corpusVars, lineVars, idx>>

ErrNext == ErrStart \/ ErrPhraseIterate \/ ErrPhraseExit \/ ErrWordIterate \/ ErrReturn

SpecErrors == ErrInit /\ [][ErrNext]_vars

\* C11: when remove_errors returns, neither correction pattern matches the
\* returned text, nbErrors is the number of replacements made, and the line
\* "he had two mouses [: mice] [*] yesterday" has come back with mice in the
\* place of mouses and nbErrors = 1.
C11_ErrorsFixedPoint ==
    pc = "returned" =>
        /\ ~ErrPhraseSearch(clean)
        /\ ~ErrWordSearch(clean)
        /\ measures.nbErrors = substitutions
        /\ dialog = "he had two mouses [: mice] [*] yesterday" =>
              /\ clean = "he had two  mice [*] yesterday"
              /\ measures.nbErrors = 1

MaxErrRunSegments == 3

\* A call of remove_errors that is followed to its end.
ErrRunInit ==
    /\ TaggerIdle /\ UtilIdle
    /\ dialog \in Lines(ErrSegments, MaxErrRunSegments)
    /\ clean = "" /\ measures = [nbErrors |-> 0] /\ substitutions = 0
    /\ clean_again = "" /\ measures_again = <<>>
    /\ CorpusIdle
    /\ idx = 0
    /\ pc = "start"

\* The interpreter keeps executing the function: a step that can be taken
\* is taken.
SpecErrorsRun == ErrRunInit /\ [][ErrNext]_vars /\ WF_vars(ErrNext)

\* C24: every iteration of either while-loop of remove_errors leaves a text
\* strictly shorter than the one it found, the number of iterations made
\* (nbErrors) plus the length of the text never exceeds the length of the
\* line passed in, and the function returns.
C24_ErrorLoopsTerminate ==
    /\ [][ (pc \in {"phrases", "words"} /\ pc' = pc) =>
              Len(clean') < Len(clean) ]_vars
    /\ [](pc # "start" => measures.nbErrors + Len(clean) <= Len(dialog))
    /\ <>(pc = "returned")

\* remove_errors has returned after both loops iterated.
C24_Witness ==
    /\ pc = "returned"
    /\ measures.nbErrors >= 2
    /\ OccursFrom(dialog, "<", 1)
    /\ Len(clean) < Len(dialog)

(***************************************************************************)
(* utils/cleaning_util.py: remove_repetitions, remove_retracings           *)
(* A result of a removal is [text, n]: the text left and the number of     *)
(* matches replaced.                                                       *)
(***************************************************************************)

MaxRepSegments == 4

RepSegments ==
    {"<I wanted> [/]", " I wanted", " to go", "it's", " [/]",
     " <I wanted> [//]", " [//]", ", "}

\* '<.+?> \[/\]' and '<.+?> \[//\]' with '<' at position a: the positions of
\* the '>' that is followed by a space and the marker m.
MarkedPhraseEnds(s, a, m) ==
    {b \in (a + 2)..Len(s) : OccursAt(s, "> " \o m, b)}

\* re.sub(r'<.+?> \[/\]', '', clean) from position i on: the matches are
\* taken from left to right and do not overlap.
RECURSIVE RemoveMarkedPhrases(_, _, _)
RemoveMarkedPhrases(s, i, m) ==
    LET starts == {a \in i..Len(s) :
                      Char(s, a) = "<" /\ MarkedPhraseEnds(s, a, m) # {}}
    IN  IF starts = {} THEN [text |-> From(s, i), n |-> 0]
        ELSE LET a == Min(starts)
                 b == Min(MarkedPhraseEnds(s, a, m))
                 rest == RemoveMarkedPhrases(s, b + Len(m) + 2, m)
             IN  [text |-> Sub(s, i, a - 1) \o rest.text, n |-> rest.n + 1]

\* '[a-zA-Z0-9À-ÿ_\']+ \[/\]' starting at position a.
MarkedWordAt(s, a, m) ==
    /\ Char(s, a) \in AnnotatedWordChars
    /\ OccursAt(s, " " \o m, ErrWordEnd(s, a))

\* re.sub(r'[a-zA-Z0-9À-ÿ_\']+ \[/\]', '', clean) from position i on.
RECURSIVE RemoveMarkedWords(_, _, _)
RemoveMarkedWords(s, i, m) ==
    LET starts == {a \in i..Len(s) : MarkedWordAt(s, a, m)}
    IN  IF starts = {} THEN [text |-> From(s, i), n |-> 0]
        ELSE LET a == Min(starts)
                 rest == RemoveMarkedWords(s, ErrWordEnd(s, a) + Len(m) + 1, m)
             IN  [text |-> Sub(s, i, a - 1) \o rest.text, n |-> rest.n + 1]

\* \w of a str pattern, on the characters of the model.
WordChars ==
    AsciiLower \cup AsciiUpper \cup Digits \cup {"_"} \cup (Latin1Range \ {"×", "÷"})

\* \b before position p.
IsBoundary(s, p) == (Char(s, p - 1) \in WordChars) # (Char(s, p) \in WordChars)

\* The first position at or after p that holds no \w character.
WordEnd(s, p) ==
    Min({q \in p..(Len(s) + 1) : q = Len(s) + 1 \/ Char(s, q) \notin WordChars})

\* The length of the run of commas of s that starts at position i.
RECURSIVE CommaRun(_, _)
CommaRun(s, i) == IF Char(s, i) = "," THEN 1 + CommaRun(s, i + 1) ELSE 0

\* r'(\b\w+\b\s*)+\,*(?=.*\1)' with an iteration of the group starting at
\* the word at ws: the end of the match (the position after it), 0 if none.
\* The matcher first tries one more iteration, then, last iteration being
\* this one, fewer and fewer spaces and commas, group 1 being the word and
\* the spaces taken.
RECURSIVE CountedRepeatEnd(_, _)
CountedRepeatEnd(s, ws) ==
    LET q == WordEnd(s, ws)
        sp == SpaceRun(s, q)
        more == IF sp >= 1 /\ Char(s, q + sp) \in WordChars
                THEN CountedRepeatEnd(s, q + sp) ELSE 0
        ends == {<<t, k>> \in (0..sp) \X (0..CommaRun(s, q + sp)) :
                    /\ (t < sp => k = 0)
                    /\ OccursFrom(s, Sub(s, ws, q + t - 1), q + t + k)}
        t == Max({e[1] : e \in ends})
        k == Max({e[2] : e \in {f \in ends : f[1] = t}})
    IN  IF more > 0 THEN more
        ELSE IF ends = {} THEN 0
        ELSE q + t + k

\* len(re.findall(r'(\b\w+\b\s*)+\,*(?=.*\1)', clean)) from position i on.
RECURSIVE CountRepeats(_, _)
CountRepeats(s, i) ==
    LET starts == {p \in i..Len(s) :
                      /\ Char(s, p) \in WordChars /\ IsBoundary(s, p)
                      /\ CountedRepeatEnd(s, p) > 0}
    IN  IF starts = {} THEN 0
        ELSE 1 + CountRepeats(s, CountedRepeatEnd(s, Min(starts)))

\* [a-z,A-Z ]
CommaPhraseChars == AsciiLower \cup AsciiUpper \cup {",", " "}

\* The length of the run of [a-z,A-Z ] that starts at position i.
CommaPhraseRun(s, i) ==
    Min({q \in i..(Len(s) + 1) : Char(s, q) \notin CommaPhraseChars}) - i

\* r'(\b[a-z,A-Z ]+\s*), (?=.*\1)' starting at p: the pairs <<L, t>> of a
\* length of the class run and a number of spaces after it with which the
\* pattern matches.
RemovedRepeatFits(s, p) ==
    {f \in (1..CommaPhraseRun(s, p)) \X (0..Len(s)) :
        /\ f[2] <= SpaceRun(s, p + f[1])
        /\ OccursAt(s, ", ", p + f[1] + f[2])
        /\ OccursFrom(s, Sub(s, p, p + f[1] + f[2] - 1), p + f[1] + f[2] + 2)}

\* The end of that match: the class run is greedy, then the spaces.
RemovedRepeatEnd(s, p) ==
    LET fits == RemovedRepeatFits(s, p)
        L == Max({f[1] : f \in fits})
        t == Max({f[2] : f \in {g \in fits : g[1] = L}})
    IN  p + L + t + 2

\* re.sub(p, r'', clean) of CASE 3 from position i on.
RECURSIVE RemoveRepeats(_, _)
RemoveRepeats(s, i) ==
    LET starts == {p \in i..Len(s) :
                      IsBoundary(s, p) /\ RemovedRepeatFits(s, p) # {}}
    IN  IF starts = {} THEN [text |-> From(s, i), n |-> 0]
        ELSE LET p == Min(starts)
                 rest == RemoveRepeats(s, RemovedRepeatEnd(s, p))
             IN  [text |-> Sub(s, i, p - 1) \o rest.text, n |-> rest.n + 1]

\* remove_repetitions(dialog): the text and count returned, and the number
\* of spans its three re.sub calls deleted.
RemoveRepetitions(d) ==
    LET c0 == CollapseSpaces(d)
        r1 == RemoveMarkedPhrases(c0, 1, "[/]")
        r2 == RemoveMarkedWords(r1.text, 1, "[/]")
        r3 == RemoveRepeats(r2.text, 1)
    IN  [clean |-> r3.text,
         count |-> r1.n + r2.n + CountRepeats(r2.text, 1),
         deleted |-> r1.n + r2.n + r3.n]

\* remove_retracings(dialog), likewise.
RemoveRetracings(d) ==
    LET c0 == CollapseSpaces(d)
        r1 == RemoveMarkedPhrases(c0, 1, "[//]")
        r2 == RemoveMarkedWords(r1.text, 1, "[//]")
    IN  [clean |-> r2.text, count |-> r1.n + r2.n, deleted |-> r1.n + r2.n]

RepInit ==
    /\ TaggerIdle /\ UtilIdle
    /\ dialog \in Lines(RepSegments, MaxRepSegments)
    /\ clean = "" /\ substitutions = 0
    /\ \/ measures = [nbRepetitions |-> 0] /\ pc = "repetitions"
       \/ measures = [nbRetracings |-> 0] /\ pc = "retracings"
    /\ clean_again = "" /\ measures_again = <<>>
    /\ CorpusIdle
    /\ idx = 0

\* remove_repetitions: clean = re.sub(r'\s\s+', ' ', dialog), then CASE 1.
RepPhrases ==
    /\ pc = "repetitions"
    /\ LET r == RemoveMarkedPhrases(CollapseSpaces(dialog), 1, "[/]")
       IN  /\ clean' = r.text
           /\ measures' = [nbRepetitions |-> r.n]
           /\ substitutions' = r.n
    /\ pc' = "repetitions_case_2"
    /\ UNCHANGED <<utilVars, taggerVars, corpusVars, dialog, clean_again, measures_again, idx>>

\* remove_repetitions: CASE 2.
RepWords ==
    /\ pc = "repetitions_case_2"
    /\ LET r == RemoveMarkedWords(clean, 1, "[/]")
       IN  /\ clean' = r.text
           /\ measures' = [nbRepetitions |-> measures.nbRepetitions + r.n]
           /\ substitutions' = substitutions + r.n
    /\ pc' = "repetitions_case_3"
    /\ UNCHANGED <<utilVars, taggerVars, corpusVars, dialog, clean_again, measures_again, idx>>

\* remove_repetitions: CASE 3 and the return.  The count is taken with one
\* pattern, the text is rewritten with another.
RepCommas ==
    /\ pc = "repetitions_case_3"
    /\ LET r == RemoveRepeats(clean, 1)
       IN  /\ clean' = r.text
           /\ measures' =
                 [nbRepetitions |-> measures.nbRepetitions + CountRepeats(clean, 1)]
           /\ substitutions' = substitutions + r.n
    /\ pc' = "repetitions_returned"
    /\ UNCHANGED <<utilVars, taggerVars, corpusVars, dialog, clean_again, measures_again, idx>>

\* remove_repetitions called on the text it returned.
RepAgain ==
    /\ pc = "repetitions_returned"
    /\ LET r == RemoveRepetitions(clean)
       IN  /\ clean_again' = r.clean
           /\ measures_again' = [nbRepetitions |-> r.count, deleted |-> r.deleted]
    /\ pc' = "repetitions_again"
    /\ UNCHANGED <<utilVars, taggerVars, corpusVars, dialog, clean, measures, substitutions, idx>>

\* remove_retracings: clean = re.sub(r'\s\s+', ' ', dialog), then CASE 1.
RetPhrases ==
    /\ pc = "retracings"
    /\ LET r == RemoveMarkedPhrases(CollapseSpaces(dialog), 1, "[//]")
       IN  /\ clean' = r.text
           /\ measures' = [nbRetracings |-> r.n]
           /\ substitutions' = r.n
    /\ pc' = "retracings_case_2"
    /\ UNCHANGED <<utilVars, taggerVars, corpusVars, dialog, clean_again, measures_again, idx>>

\* remove_retracings: CASE 2 and the return.
RetWords ==
    /\ pc = "retracings_case_2"
    /\ LET r == RemoveMarkedWords(clean, 1, "[//]")
       IN  /\ clean' = r.text
           /\ measures' = [nbRetracings |-> measures.nbRetracings + r.n]
           /\ substitutions' = substitutions + r.n
    /\ pc' = "retracings_returned"
    /\ UNCHANGED <<utilVars, taggerVars, corpusVars, dialog, clean_again, measures_again, idx>>

\* remove_retracings called on the text it returned.
RetAgain ==
    /\ pc = "retracings_returned"
    /\ LET r == RemoveRetracings(clean)
       IN  /\ clean_again' = r.clean
           /\ measures_again' = [nbRetracings |-> r.count, deleted |-> r.deleted]
    /\ pc' = "retracings_again"
    /\ UNCHANGED <<utilVars, taggerVars, corpusVars, dialog, clean, measures, substitutions, idx>>

RepNext == RepPhrases \/ RepWords \/ RepCommas \/ RepAgain \/ RetPhrases \/ RetWords \/ RetAgain

SpecRepeats == RepInit /\ [][RepNext]_vars

\* C12: remove_repetitions and remove_retracings applied to the text they
\* returned find nothing more: the second application returns a count of 0
\* and deletes no span.
C12_SecondApplicationFindsNothing ==
    /\ pc = "repetitions_again" =>
          measures_again.nbRepetitions = 0 /\ measures_again.deleted = 0
    /\ pc = "retracings_again" =>
          measures_again.nbRetracings = 0 /\ measures_again.deleted = 0

\* C13: the nbRepetitions that remove_repetitions returns is the number of
\* spans it deleted from the line; "<I wanted> [/] I wanted to go" gives 1
\* and a line from which nothing is deleted gives 0.
C13_CountIsSpansDeleted ==
    pc = "repetitions_returned" =>
        /\ measures.nbRepetitions = substitutions
        /\ dialog = "<I wanted> [/] I wanted to go" => measures.nbRepetitions = 1
        /\ substitutions = 0 => measures.nbRepetitions = 0

(***************************************************************************)
(* utils/cleaning_util.py: remove_pauses                                   *)
(***************************************************************************)

MaxPauseSegments == 7

PauseSegments == {"(", ".", ")", "um"}

PauseExamples == {"well (.) um (..) I (...) think", "so (....) then  (.) yes"}

\* re.sub of a pattern without operators, from position i on; n counts the
\* matches, as len(re.findall(p, clean)) does.
RECURSIVE ReplaceLiteral(_, _, _, _)
ReplaceLiteral(s, i, lit, by) ==
    LET hits == {j \in i..Len(s) : OccursAt(s, lit, j)}
    IN  IF hits = {} THEN [text |-> From(s, i), n |-> 0]
        ELSE LET j == Min(hits)
                 rest == ReplaceLiteral(s, j + Len(lit), lit, by)
             IN  [text |-> Sub(s, i, j - 1) \o by \o rest.text, n |-> rest.n + 1]

\* The length of the run of dots of s that starts at position i.
RECURSIVE DotRun(_, _)
DotRun(s, i) == IF Char(s, i) = "." THEN 1 + DotRun(s, i + 1) ELSE 0

\* '\(\.\.\.\.\)', a pattern of four dots only, at position i.
OtherPauseAtFourDots(s, i) == IF OccursAt(s, "(....)", i) THEN 6 ELSE 0

\* '\(\.\.\.(\.+)\)' at position i: the length of the match, 0 if none.
OtherPauseAt(s, i) ==
    IF OccursAt(s, "(....", i) /\ Char(s, i + 1 + DotRun(s, i + 1)) = ")"
    THEN DotRun(s, i + 1) + 2 ELSE 0

\* re.findall and re.sub of the pattern of CASE 4, from position i on.
RECURSIVE RemoveOtherPauses(_, _)
RemoveOtherPauses(s, i) ==
    LET hits == {j \in i..Len(s) : OtherPauseAt(s, j) > 0}
    IN  IF hits = {} THEN [text |-> From(s, i), n |-> 0]
        ELSE LET j == Min(hits)
                 rest == RemoveOtherPauses(s, j + OtherPauseAt(s, j))
             IN  [text |-> Sub(s, i, j - 1) \o rest.text, n |-> rest.n + 1]

\* remove_pauses(dialog): the text and the dictionary returned.
RemovePauses(d) ==
    LET r1 == ReplaceLiteral(CollapseSpaces(d), 1, "(.)", "")
        r2 == ReplaceLiteral(r1.text, 1, "(..)", "")
        r3 == ReplaceLiteral(r2.text, 1, "(...)", "")
        r4 == RemoveOtherPauses(r3.text, 1)
    IN  [clean |-> r4.text,
         nb_pauses |-> [nbPausesTotal |-> r1.n + r2.n + r3.n + r4.n,
                        nbPausesShort |-> r1.n, nbPausesMedium |-> r2.n,
                        nbPausesLong |-> r3.n, nbPausesOther |-> r4.n]]

PauseInit ==
    /\ TaggerIdle /\ UtilIdle
    /\ dialog \in Lines(PauseSegments, MaxPauseSegments) \cup PauseExamples
    /\ clean = "" /\ substitutions = 0
    /\ measures = [nbPausesTotal |-> 0, nbPausesShort |-> 0, nbPausesMedium |-> 0,
                   nbPausesLong |-> 0, nbPausesOther |-> 0]
    /\ clean_again = "" /\ measures_again = <<>>
    /\ CorpusIdle
    /\ idx = 0
    /\ pc = "short"

\* One case of remove_pauses: the matches of the pattern are counted and
\* deleted, the count is added to the total and stored under its sub-type.
PauseCase(r, subtype, next) ==
    /\ clean' = r.text
    /\ measures' = [measures EXCEPT !.nbPausesTotal = @ + r.n, ![subtype] = r.n]
    /\ substitutions' = substitutions + r.n
    /\ pc' = next
    /\ UNCHANGED <<utilVars, taggerVars, corpusVars, dialog, clean_again, measures_again, idx>>

\* clean = re.sub(r'\s\s+', ' ', dialog), the dictionary, CASE 1.
PauseShort ==
    /\ pc = "short"
    /\ PauseCase(ReplaceLiteral(CollapseSpaces(dialog), 1, "(.)", ""),
                 "nbPausesShort", "medium")

PauseMedium ==
    /\ pc = "medium"
    /\ PauseCase(ReplaceLiteral(clean, 1, "(..)", ""), "nbPausesMedium", "long")

PauseLong ==
    /\ pc = "long"
    /\ PauseCase(ReplaceLiteral(clean, 1, "(...)", ""), "nbPausesLong", "other")

\* CASE 4 and the return.
PauseOther ==
    /\ pc = "other"
    /\ PauseCase(RemoveOtherPauses(clean, 1), "nbPausesOther", "returned")

PauseNext == PauseShort \/ PauseMedium \/ PauseLong \/ PauseOther

SpecPauses == PauseInit /\ [][PauseNext]_vars

\* The parenthesized dot-runs of s: their positions, by number of dots.
DotRunsOf(s, dots) ==
    {i \in 1..Len(s) :
        /\ Char(s, i) = "(" /\ DotRun(s, i + 1) \in dots
        /\ Char(s, i + 1 + DotRun(s, i + 1)) = ")"}

\* s without its parenthesized dot-runs.
RECURSIVE WithoutDotRuns(_, _)
WithoutDotRuns(s, i) ==
    IF i > Len(s) THEN ""
    ELSE IF i \in DotRunsOf(s, 1..Len(s))
         THEN WithoutDotRuns(s, i + DotRun(s, i + 1) + 2)
         ELSE Char(s, i) \o WithoutDotRuns(s, i + 1)

\* Deleting the dot-runs of the line puts no new one together.
NoNestedPause(s) == DotRunsOf(WithoutDotRuns(s, 1), 1..Len(s)) = {}

\* C18: remove_pauses counts each parenthesized dot-run of the line in the
\* sub-type of its number of dots and in no other, no count is negative,
\* and nbPausesTotal is the sum of the four sub-types; unless deleting the
\* runs puts a new one together, the counts are the numbers of runs of the
\* line and no run is left ("well (.) um (..) I (...) think": 1, 1, 1, 0,
\* total 3).
C18_PauseCountsPartition ==
    pc = "returned" =>
        /\ measures.nbPausesTotal =
              measures.nbPausesShort + measures.nbPausesMedium
              + measures.nbPausesLong + measures.nbPausesOther
        /\ \A k \in DOMAIN measures : measures[k] >= 0
        /\ measures.nbPausesShort = Cardinality(DotRunsOf(dialog, {1}))
        /\ measures.nbPausesMedium >= Cardinality(DotRunsOf(dialog, {2}))
        /\ measures.nbPausesLong >= Cardinality(DotRunsOf(dialog, {3}))
        /\ measures.nbPausesOther >= Cardinality(DotRunsOf(dialog, 4..Len(dialog)))
        /\ measures.nbPausesTotal = substitutions
        /\ NoNestedPause(dialog) =>
              /\ measures.nbPausesTotal = Cardinality(DotRunsOf(dialog, 1..Len(dialog)))
              /\ DotRunsOf(clean, 1..Len(clean)) = {}
        /\ dialog = "well (.) um (..) I (...) think" =>
              /\ measures = [nbPausesTotal |-> 3, nbPausesShort |-> 1,
                             nbPausesMedium |-> 1, nbPausesLong |-> 1,
                             nbPausesOther |-> 0]
              /\ clean = "well  um  I  think"

\* remove_pauses has returned from the spec's example, and from a line with
\* one pause of each sub-type.
C18_Witness ==
    /\ pc = "returned"
    /\ dialog = "well (.) um (..) I (...) think"
    /\ measures.nbPausesTotal = 3

(***************************************************************************)
(* utils/cleaning_util.py: normalize_sentence                              *)
(***************************************************************************)

MaxNormSegments == 4

NormSegments == {"hello", "world", " ", "_", "à", ".", " ?", ","}

NormExamples == {" hello world ", "je suis   à_Paris !", "?!"}

\* dialog.strip(): the spaces at both ends removed.
RECURSIVE Strip(_)
Strip(s) ==
    IF s = "" THEN ""
    ELSE IF IsSpace(Char(s, 1)) THEN Strip(From(s, 2))
    ELSE IF IsSpace(Char(s, Len(s))) THEN Strip(Sub(s, 1, Len(s) - 1))
    ELSE s

LowerLetters == "abcdefghijklmnopqrstuvwxyzàáâãäåæçèéêëìíîïðñòóôõöøùúûüýþ"

UpperLetters == "ABCDEFGHIJKLMNOPQRSTUVWXYZÀÁÂÃÄÅÆÇÈÉÊËÌÍÎÏÐÑÒÓÔÕÖØÙÚÛÜÝÞ"

\* str.upper() of one character (ß gives two; ÿ is not in the model).
Upper(c) ==
    IF c = "ß" THEN "SS"
    ELSE IF \E i \in 1..Len(LowerLetters) : Char(LowerLetters, i) = c
         THEN Char(UpperLetters, CHOOSE i \in 1..Len(LowerLetters) : Char(LowerLetters, i) = c)
         ELSE c

\* if clean != '': clean = clean[0].upper() + clean[1:]
Capitalize(s) == IF s # "" THEN Upper(Char(s, 1)) \o From(s, 2) ELSE s

\* The four re.sub calls on punctuation; '\!' becomes '!', which changes nothing.
SpacesBeforePunctuation(s) ==
    LET a == ReplaceLiteral(s, 1, " .", ".").text
        b == ReplaceLiteral(a, 1, " ,", ",").text
        c == ReplaceLiteral(b, 1, " ?", "?").text
    IN  ReplaceLiteral(c, 1, "!", "!").text

\* clean.endswith(".") or clean.endswith("?") or clean.endswith("!")
EndsSentence(s) == Char(s, Len(s)) \in {".", "?", "!"}

\* re.search('[a-zA-Z]', clean)
HasAsciiLetter(s) == \E i \in 1..Len(s) : Char(s, i) \in AsciiLower \cup AsciiUpper

\* The string normalize_sentence has built when it reaches its last test.
NormalizedText(d) ==
    LET a == Capitalize(Strip(CollapseSpaces(d)))
        b == ReplaceLiteral(a, 1, "_", " ").text
        c == CollapseSpaces(SpacesBeforePunctuation(b))
    IN  IF EndsSentence(c) THEN c ELSE c \o "."

\* normalize_sentence(dialog): [none |-> TRUE] for a return without value.
NormalizeSentence(d) ==
    IF HasAsciiLetter(NormalizedText(d))
    THEN [none |-> FALSE, clean |-> NormalizedText(d)]
    ELSE [none |-> TRUE, clean |-> ""]

NormInit ==
    /\ TaggerIdle /\ UtilIdle
    /\ dialog \in Lines(NormSegments, MaxNormSegments) \cup NormExamples
    /\ clean = "" /\ substitutions = 0 /\ measures = <<>>
    /\ clean_again = "" /\ measures_again = <<>>
    /\ CorpusIdle
    /\ idx = 0
    /\ pc = "strip"

\* Multiple spacing removed, the line stripped and capitalized.
NormStrip ==
    /\ pc = "strip"
    /\ clean' = Capitalize(Strip(CollapseSpaces(dialog)))
    /\ pc' = "separate"
    /\ UNCHANGED <<utilVars, taggerVars, corpusVars, dialog, measures, substitutions,
                   clean_again, measures_again, idx>>

\* Underscores become spaces, spaces before punctuation marks are removed,
\* multiple spacing is removed again.
NormSeparate ==
    /\ pc = "separate"
    /\ clean' = CollapseSpaces(
                    SpacesBeforePunctuation(ReplaceLiteral(clean, 1, "_", " ").text))
    /\ pc' = "terminate"
    /\ UNCHANGED <<utilVars, taggerVars, corpusVars, dialog, measures, substitutions,
                   clean_again, measures_again, idx>>

\* A full stop is added if the line ends in none of . ? !
NormTerminate ==
    /\ pc = "terminate"
    /\ clean' = IF EndsSentence(clean) THEN clean ELSE clean \o "."
    /\ pc' = "verify"
    /\ UNCHANGED <<utilVars, taggerVars, corpusVars, dialog, measures, substitutions,
                   clean_again, measures_again, idx>>

\* if not re.search('[a-zA-Z]', clean): return
NormReturnNone ==
    /\ pc = "verify"
    /\ ~HasAsciiLetter(clean)
    /\ pc' = "returned_none"
    /\ UNCHANGED <<utilVars, taggerVars, corpusVars, lineVars, idx>>

\* return (clean)
NormReturn ==
    /\ pc = "verify"
    /\ HasAsciiLetter(clean)
    /\ pc' = "returned"
    /\ UNCHANGED <<utilVars, taggerVars, corpusVars, lineVars, idx>>

NormNext == NormStrip \/ NormSeparate \/ NormTerminate \/ NormReturnNone \/ NormReturn

SpecNormalize == NormInit /\ [][NormNext]_vars

\* The letters: ASCII and accented.
Letters == AsciiLower \cup AsciiUpper \cup (Latin1Range \ {"×", "÷"})

HasLetter(s) == \E i \in 1..Len(s) : Char(s, i) \in Letters

\* C17: normalize_sentence returns no value exactly when the normalized
\* string holds no letter, accented letters included; otherwise the string
\* returned has no space at either end, its first character is upper-case,
\* it holds no underscore and it ends in '.', '?' or '!'; " hello world "
\* gives "Hello world.".
C17_NoValueIffNoLetter ==
    /\ pc = "returned_none" => ~HasLetter(clean)
    /\ pc = "returned" =>
          /\ HasLetter(clean)
          /\ ~IsSpace(Char(clean, 1)) /\ ~IsSpace(Char(clean, Len(clean)))
          /\ Upper(Char(clean, 1)) = Char(clean, 1)
          /\ \A i \in 1..Len(clean) : Char(clean, i) # "_"
          /\ EndsSentence(clean)
          /\ dialog = " hello world " => clean = "Hello world."

(***************************************************************************)
(* utils/cleaning_util.py: reduce_synonyms                                 *)
(***************************************************************************)

MaxSynSegments == 4

SynSegments == {"girl ", "Girl ", "mother ", "boy ", "girls ", "the "}

\* json.load(open(syn_conf_file)): the canonical terms in the order of the
\* file, each with its variants.
synonym_dict ==
    << [curr_synonym |-> "women", variants |-> <<"girl", "mother", "wife">>],
       [curr_synonym |-> "men", variants |-> <<"boy", "father">>] >>

\* str.lower() of one character.
LowerChar(c) ==
    IF \E i \in 1..Len(UpperLetters) : Char(UpperLetters, i) = c
    THEN Char(LowerLetters, CHOOSE i \in 1..Len(UpperLetters) : Char(UpperLetters, i) = c)
    ELSE c

\* The text with every letter in lower case, as re.IGNORECASE compares.
RECURSIVE IgnoreCase(_)
IgnoreCase(s) ==
    IF Len(s) <= 1 THEN LowerChar(s)
    ELSE LET h == Len(s) \div 2
         IN  IgnoreCase(Sub(s, 1, h)) \o IgnoreCase(From(s, h + 1))

\* The variants in lower case.
IgnoreCaseAll(variants) == [v \in DOMAIN variants |-> IgnoreCase(variants[v])]

\* r"\b(" + '|'.join(variants) + r")\b" at position i of s: the variants
\* that match there, by their index.
VariantsAt(s, i, variants) ==
    {v \in 1..Len(variants) :
        /\ IsBoundary(s, i)
        /\ OccursAt(s, variants[v], i)
        /\ IsBoundary(s, i + Len(variants[v]))}

\* The length of the match at i, 0 if none: the first alternative that fits.
VariantAt(s, i, variants) ==
    IF VariantsAt(s, i, variants) = {} THEN 0
    ELSE Len(variants[Min(VariantsAt(s, i, variants))])

\* The number of matches of the pattern in s from position i on.
RECURSIVE CountMatches(_, _, _)
CountMatches(s, i, variants) ==
    LET hits == {j \in i..Len(s) : VariantAt(s, j, variants) > 0}
    IN  IF hits = {} THEN 0
        ELSE 1 + CountMatches(s, Min(hits) + VariantAt(s, Min(hits), variants), variants)

\* len(re.findall(pattern, clean_syn, re.IGNORECASE)): pattern and text are
\* compared without their letter case.
CountVariants(s, variants) ==
    CountMatches(IgnoreCase(s), 1, IgnoreCaseAll(variants))

\* re.IGNORECASE, the fourth positional argument of re.sub: its count.
IGNORECASE == 2

\* re.sub(pattern, curr_synonym, clean_syn, count) from position i on: flags
\* is 0, so the letter case counts, and at most count matches are replaced.
RECURSIVE SubVariants(_, _, _, _, _)
SubVariants(s, i, variants, by, count) ==
    LET hits == {j \in i..Len(s) : VariantAt(s, j, variants) > 0}
    IN  IF count = 0 \/ hits = {} THEN [text |-> From(s, i), n |-> 0]
        ELSE LET j == Min(hits)
                 rest == SubVariants(s, j + VariantAt(s, j, variants),
                                     variants, by, count - 1)
             IN  [text |-> Sub(s, i, j - 1) \o by \o rest.text, n |-> rest.n + 1]

SynInit ==
    /\ TaggerIdle /\ UtilIdle
    /\ dialog \in Lines(SynSegments, MaxSynSegments)
    /\ clean = dialog /\ substitutions = 0 /\ measures = [nbSynonyms |-> 0]
    /\ clean_again = "" /\ measures_again = <<>>
    /\ CorpusIdle
    /\ idx = 0
    /\ pc = "loop"

\* One iteration of: for curr_synonym in synonym_dict.keys()
SynIterate ==
    /\ pc = "loop"
    /\ idx < Len(synonym_dict)
    /\ LET entry == synonym_dict[idx + 1]
           r == SubVariants(clean, 1, entry.variants, entry.curr_synonym, IGNORECASE)
       IN  /\ measures' = [nbSynonyms |->
                              measures.nbSynonyms + CountVariants(clean, entry.variants)]
           /\ clean' = r.text
           /\ substitutions' = substitutions + r.n
    /\ idx' = idx + 1
    /\ UNCHANGED <<utilVars, taggerVars, corpusVars, dialog, clean_again, measures_again, pc>>

\* return (clean_syn, nb_synonyms)
SynReturn ==
    /\ pc = "loop"
    /\ idx = Len(synonym_dict)
    /\ pc' = "returned"
    /\ UNCHANGED <<utilVars, taggerVars, corpusVars, lineVars, idx>>

SynNext == SynIterate \/ SynReturn

SpecSynonyms == SynInit /\ [][SynNext]_vars

\* A variant of some canonical term is left in s as a whole word, in some
\* letter case.
VariantLeft(s) ==
    \E e \in 1..Len(synonym_dict) : CountVariants(s, synonym_dict[e].variants) > 0

\* C16: when reduce_synonyms returns, no variant is left in the text as a
\* whole word in any letter case, and nbSynonyms is the number of
\* substitutions made.
C16_AllVariantsSubstituted ==
    pc = "returned" =>
        /\ ~VariantLeft(clean)
        /\ measures.nbSynonyms = substitutions

(***************************************************************************)
(* utils/cleaning_util.py: remove_parentheses, remove_interjections,       *)
(* remove_expressions, remove_incomplete_words_and_phrases,                *)
(* remove_markers_and_symbols                                              *)
(***************************************************************************)

\* re.sub of a character class by '': the characters of s that are not in cs.
RECURSIVE DeleteChars(_, _)
DeleteChars(s, cs) ==
    LET hits == {j \in 1..Len(s) : Char(s, j) \in cs}
    IN  IF hits = {} THEN s
        ELSE Sub(s, 1, Min(hits) - 1) \o DeleteChars(From(s, Min(hits) + 1), cs)

\* remove_parentheses(dialog)
RemoveParentheses(d) == DeleteChars(CollapseSpaces(d), {"(", ")"})

\* list(f) of the interjections configuration file of the model.
interjections == <<"uh">>

\* list(f) of the expressions configuration file of the model.
expressions == <<"laugh">>

\* The number of "&-" that follow one another from position i on.
RECURSIVE AmpDashRun(_, _)
AmpDashRun(s, i) == IF OccursAt(s, "&-", i) THEN 1 + AmpDashRun(s, i + 2) ELSE 0

\* r'\b(\&[-])*' + w + r'\b' at position i of t: the length of the match, 0
\* if none.  The greedy (\&[-])* gives its repetitions back one by one.
InterjectionAt(t, i, w) ==
    LET fits == {k \in 0..AmpDashRun(t, i) :
                    /\ OccursAt(t, w, i + 2 * k)
                    /\ IsBoundary(t, i + 2 * k + Len(w))}
    IN  IF IsBoundary(t, i) /\ fits # {} THEN 2 * Max(fits) + Len(w) ELSE 0

\* r'&=\b' + w + r'\b' at position i of t.
ExpressionAt(t, i, w) ==
    IF /\ OccursAt(t, "&=" \o w, i)
       /\ IsBoundary(t, i + 2) /\ IsBoundary(t, i + 2 + Len(w))
    THEN 2 + Len(w) ELSE 0

\* [a-zA-Z0-9À-ÿ_+-]
IncompleteWordChars ==
    AsciiLower \cup AsciiUpper \cup Digits \cup Latin1Range \cup {"_", "+", "-"}

\* [a-zA-ZÀ-ÿ0-9_-]
MarkerNameChars ==
    AsciiLower \cup AsciiUpper \cup Digits \cup Latin1Range \cup {"_", "-"}

\* The length of the run of characters of cs that starts at position i.
RECURSIVE ClassRun(_, _, _)
ClassRun(s, i, cs) == IF Char(s, i) \in cs THEN 1 + ClassRun(s, i + 1, cs) ELSE 0

\* '&([a-zA-Z0-9À-ÿ_+-]+)' at position i.
IncompleteWordAt(s, i) ==
    IF Char(s, i) = "&" /\ ClassRun(s, i + 1, IncompleteWordChars) > 0
    THEN 1 + ClassRun(s, i + 1, IncompleteWordChars) ELSE 0

\* The positions from i on that hold the character c, two or more after i.
LaterChar(s, i, c) == {j \in (i + 2)..Len(s) : Char(s, j) = c}

\* '^(\+,)|^(\,)|\[.+?\]|<.+?>|[<>\[\]+=\"/]|&=[a-zA-ZÀ-ÿ0-9_-]+|...' at
\* position i: the first alternative that matches.  The last alternative
\* needs a control character, which no line of the model holds.
MarkerAt(s, i) ==
    IF i = 1 /\ OccursAt(s, "+,", 1) THEN 2
    ELSE IF i = 1 /\ Char(s, 1) = "," THEN 1
    ELSE IF Char(s, i) = "[" /\ LaterChar(s, i, "]") # {}
         THEN Min(LaterChar(s, i, "]")) - i + 1
    ELSE IF Char(s, i) = "<" /\ LaterChar(s, i, ">") # {}
         THEN Min(LaterChar(s, i, ">")) - i + 1
    ELSE IF Char(s, i) \in {"<", ">", "[", "]", "+", "=", "\"", "/"} THEN 1
    ELSE IF OccursAt(s, "&=", i) /\ ClassRun(s, i + 2, MarkerNameChars) > 0
         THEN 2 + ClassRun(s, i + 2, MarkerNameChars)
    ELSE 0

\* The length of the match of one of the patterns above at position i of s;
\* t is s in lower case, for the patterns compiled with re.IGNORECASE.
SpanAt(s, t, i, kind, w) ==
    CASE kind = "interjection" -> InterjectionAt(t, i, w)
      [] kind = "expression" -> ExpressionAt(t, i, w)
      [] kind = "incomplete" -> IncompleteWordAt(s, i)
      [] kind = "marker" -> MarkerAt(s, i)

\* len(re.findall(p, clean)) and re.sub(p, '', clean) from position i on.
RECURSIVE RemoveSpans(_, _, _, _, _)
RemoveSpans(s, t, i, kind, w) ==
    LET hits == {j \in i..Len(s) : SpanAt(s, t, j, kind, w) > 0}
    IN  IF hits = {} THEN [text |-> From(s, i), n |-> 0]
        ELSE LET j == Min(hits)
                 rest == RemoveSpans(s, t, j + SpanAt(s, t, j, kind, w), kind, w)
             IN  [text |-> Sub(s, i, j - 1) \o rest.text, n |-> rest.n + 1]

\* The loop over the lines of a configuration file, from entry k on: each
\* pattern is counted and removed in the text the one before has left.
RECURSIVE RemoveConfigured(_, _, _, _)
RemoveConfigured(s, kind, words, k) ==
    IF k > Len(words) THEN [text |-> s, n |-> 0]
    ELSE LET r == RemoveSpans(s, IgnoreCase(s), 1, kind, IgnoreCase(words[k]))
             rest == RemoveConfigured(r.text, kind, words, k + 1)
         IN  [text |-> rest.text, n |-> r.n + rest.n]

\* remove_interjections(dialog, interjections_conf_file), the file existing.
RemoveInterjections(d) ==
    RemoveConfigured(CollapseSpaces(d), "interjection", interjections, 1)

\* remove_expressions(dialog, expressions_conf_file), the file existing.
RemoveExpressions(d) ==
    RemoveConfigured(CollapseSpaces(d), "expression", expressions, 1)

\* remove_incomplete_words_and_phrases(dialog)
RemoveIncomplete(d) ==
    LET c0 == CollapseSpaces(d)
        words == RemoveSpans(c0, c0, 1, "incomplete", "")
        phrases == ReplaceLiteral(words.text, 1, "...", ".")
    IN  [text |-> phrases.text, words |-> words.n, phrases |-> phrases.n]

\* The first while loop of remove_errors, run to its end.
RECURSIVE ErrPhraseLoop(_)
ErrPhraseLoop(s) ==
    IF ErrPhraseSearch(s)
    THEN LET r == ErrPhraseLoop(ErrPhraseSub(s)) IN [text |-> r.text, n |-> r.n + 1]
    ELSE [text |-> s, n |-> 0]

\* The second while loop of remove_errors, run to its end.
RECURSIVE ErrWordLoop(_)
ErrWordLoop(s) ==
    IF ErrWordSearch(s)
    THEN LET r == ErrWordLoop(ErrWordSub(s)) IN [text |-> r.text, n |-> r.n + 1]
    ELSE [text |-> s, n |-> 0]

\* remove_errors(dialog)
RemoveErrors(d) ==
    LET r1 == ErrPhraseLoop(CollapseSpaces(d))
        r2 == ErrWordLoop(r1.text)
    IN  [text |-> r2.text, n |-> r1.n + r2.n]

\* r'([a-z]+)(\+)([a-z]+)' at position i: the length of the match, 0 if none.
CompoundAt(s, i) ==
    LET a == ClassRun(s, i, AsciiLower)
        b == ClassRun(s, i + a + 1, AsciiLower)
    IN  IF a > 0 /\ Char(s, i + a) = "+" /\ b > 0 THEN a + b + 1 ELSE 0

\* re.sub(r'([a-z]+)(\+)([a-z]+)', r'\1-\3', clean) from position i on.
RECURSIVE JoinCompounds(_, _)
JoinCompounds(s, i) ==
    LET hits == {j \in i..Len(s) : CompoundAt(s, j) > 0}
    IN  IF hits = {} THEN From(s, i)
        ELSE LET j == Min(hits)
                 a == ClassRun(s, j, AsciiLower)
             IN  Sub(s, i, j + a - 1) \o "-"
                 \o Sub(s, j + a + 1, j + CompoundAt(s, j) - 1)
                 \o JoinCompounds(s, j + CompoundAt(s, j))

\* The characters that the second pattern of remove_markers_and_symbols
\* keeps, among those a line of the model can hold:
\* [^a-zA-Z0-9À-ÿ\s,\._;-\?!'-] and two characters outside Latin-1.
KeptChars ==
    AsciiLower \cup AsciiUpper \cup Digits \cup Latin1Range
    \cup {" ", ",", ".", "_", ";", "<", "=", ">", "?", "!", "'", "-"}

\* re.sub of that pattern by '': every other character is deleted.
RECURSIVE KeepChars(_, _)
KeepChars(s, cs) ==
    LET hits == {j \in 1..Len(s) : Char(s, j) \notin cs}
    IN  IF hits = {} THEN s
        ELSE Sub(s, 1, Min(hits) - 1) \o KeepChars(From(s, Min(hits) + 1), cs)

\* re.sub(r'(\b0)([a-zA-ZÀ-ÿ0-9_-])', r"\2", clean) from position i on.
RECURSIVE DropLeadingZero(_, _)
DropLeadingZero(s, i) ==
    LET hits == {j \in i..Len(s) :
                    /\ IsBoundary(s, j) /\ Char(s, j) = "0"
                    /\ Char(s, j + 1) \in MarkerNameChars}
    IN  IF hits = {} THEN From(s, i)
        ELSE Sub(s, i, Min(hits) - 1) \o Char(s, Min(hits) + 1)
             \o DropLeadingZero(s, Min(hits) + 2)

\* remove_markers_and_symbols(dialog)
RemoveMarkersAndSymbols(d) ==
    LET a == JoinCompounds(CollapseSpaces(d), 1)
        b == RemoveSpans(a, a, 1, "marker", "").text
    IN  DropLeadingZero(KeepChars(b, KeptChars), 1)

(***************************************************************************)
(* multilingual-text-normalizer.py: the cleaning pipeline of one line, as  *)
(* clean_transcription runs it                                             *)
(***************************************************************************)

MaxPipeSegments == 3

PipeSegments ==
    {"the girl ", "(.) ", "&-uh ", "&=laugh ", "&ca ", "... ",
     "gos [: go] [*] ", "it's [/] ", "<I go> [//] ", "à ", "005 "}

\* The configuration files of a run: all three given, or none.
ConfChoices ==
    {[synonyms |-> g, interjections |-> g, expressions |-> g] : g \in BOOLEAN}

\* reduce_synonyms(dialog, syn_conf_file), from entry k of synonym_dict on.
RECURSIVE ReduceSynonymsFrom(_, _)
ReduceSynonymsFrom(s, k) ==
    IF k > Len(synonym_dict) THEN [text |-> s, n |-> 0]
    ELSE LET entry == synonym_dict[k]
             r == SubVariants(s, 1, entry.variants, entry.curr_synonym, IGNORECASE)
             rest == ReduceSynonymsFrom(r.text, k + 1)
         IN  [text |-> rest.text, n |-> CountVariants(s, entry.variants) + rest.n]

ReduceSynonyms(d) == ReduceSynonymsFrom(d, 1)

\* [a-zA-ZÀ-ÿ-,\']
CountedWordChars == AsciiLower \cup AsciiUpper \cup Latin1Range \cup {"-", ",", "'"}

\* len(re.findall(r'(?:^|(?<= ))[a-zA-ZÀ-ÿ-,\']+(?= |$)', clean))
TotalWordCount(s) ==
    Cardinality({i \in 1..Len(s) :
        /\ i = 1 \/ Char(s, i - 1) = " "
        /\ ClassRun(s, i, CountedWordChars) > 0
        /\ LET e == i + ClassRun(s, i, CountedWordChars)
           IN  e = Len(s) + 1 \/ Char(s, e) = " "})

\* The counters of one line before its first pass: nb_interjections,
\* nb_expressions and nb_synonyms are 0, the others are not yet assigned.
NoMeasures ==
    [nbPausesTotal |-> 0, nbPausesShort |-> 0, nbPausesMedium |-> 0,
     nbPausesLong |-> 0, nbPausesOther |-> 0, nbInterjections |-> 0,
     nbExpressions |-> 0, nbIncWords |-> 0, nbIncPhrases |-> 0, nbErrors |-> 0,
     nbRepetitions |-> 0, nbRetracings |-> 0, nbSynonyms |-> 0,
     totalWordCount |-> 0]

\* The passes before normalize_sentence, in the order of clean_transcription.
NbPasses == 10

\* clean, nb_pauses = remove_pauses(clean)
WithPauses(st, r) ==
    [clean |-> r.clean,
     measures |-> [f \in DOMAIN st.measures |->
                      IF f \in DOMAIN r.nb_pauses THEN r.nb_pauses[f]
                      ELSE st.measures[f]]]

\* clean, counter = r, for a function that returns a text and one count.
WithCount(st, counter, r) ==
    [clean |-> r.text, measures |-> [st.measures EXCEPT ![counter] = r.n]]

\* clean, counter = r, for remove_repetitions and remove_retracings.
WithRepeats(st, counter, r) ==
    [clean |-> r.clean, measures |-> [st.measures EXCEPT ![counter] = r.count]]

\* clean, nb_incomplete_words, nb_incomplete_phrases = r
WithIncomplete(st, r) ==
    [clean |-> r.text,
     measures |-> [st.measures EXCEPT !.nbIncWords = r.words,
                                      !.nbIncPhrases = r.phrases]]

\* Pass k on the text and the counters st of a line.
Pass(k, st, conf) ==
    CASE k = 1 -> WithPauses(st, RemovePauses(st.clean))
      [] k = 2 -> [st EXCEPT !.clean = RemoveParentheses(@)]
      [] k = 3 ->
           IF conf.interjections
           THEN WithCount(st, "nbInterjections", RemoveInterjections(st.clean))
           ELSE st
      [] k = 4 ->
           IF conf.expressions
           THEN WithCount(st, "nbExpressions", RemoveExpressions(st.clean))
           ELSE st
      [] k = 5 -> WithIncomplete(st, RemoveIncomplete(st.clean))
      [] k = 6 -> WithCount(st, "nbErrors", RemoveErrors(st.clean))
      [] k = 7 -> WithRepeats(st, "nbRepetitions", RemoveRepetitions(st.clean))
      [] k = 8 -> WithRepeats(st, "nbRetracings", RemoveRetracings(st.clean))
      [] k = 9 -> [st EXCEPT !.clean = RemoveMarkersAndSymbols(@)]
      [] k = 10 -> [st EXCEPT !.measures.totalWordCount = TotalWordCount(st.clean)]

PipeInit ==
    /\ TaggerIdle /\ UtilIdle
    /\ dialog \in Lines(PipeSegments, MaxPipeSegments)
    /\ conf_files \in ConfChoices
    /\ clean = dialog /\ measures = NoMeasures /\ substitutions = 0
    /\ clean_again = "" /\ measures_again = <<>>
    /\ transcription = <<>> /\ complete_clean_dialog = ""
    /\ complete_clean_dialog_syn = "" /\ cleaning_measures = <<>>
    /\ line_no = 0
    /\ file_names = <<>> /\ file_no = 0 /\ cleaning_results = <<>>
    /\ idx = 0
    /\ pc = "first"

\* One pass of the pipeline on the line.
PipePass ==
    /\ pc = "first"
    /\ idx < NbPasses
    /\ \E st \in {Pass(idx + 1, [clean |-> clean, measures |-> measures], conf_files)} :
          clean' = st.clean /\ measures' = st.measures
    /\ idx' = idx + 1
    /\ UNCHANGED <<utilVars, taggerVars, corpusVars, dialog, substitutions, clean_again,
                   measures_again, pc>>

\* clean = normalize_sentence(clean); if not clean: continue.  A line that
\* is kept goes through reduce_synonyms when its file is given.
PipeNormalize ==
    /\ pc = "first"
    /\ idx = NbPasses
    /\ \E norm \in {NormalizeSentence(clean)} :
           IF norm.none
           THEN pc' = "dropped" /\ UNCHANGED <<clean, measures, clean_again, measures_again>>
           ELSE /\ pc' = "second"
                /\ clean' = norm.clean
                /\ measures' =
                      IF conf_files.synonyms
                      THEN [measures EXCEPT !.nbSynonyms = ReduceSynonyms(norm.clean).n]
                      ELSE measures
                /\ clean_again' = norm.clean
                /\ measures_again' = NoMeasures
    /\ idx' = 0
    /\ UNCHANGED <<utilVars, taggerVars, corpusVars, dialog, substitutions>>

\* One pass of the pipeline on the cleaned line.
PipePassAgain ==
    /\ pc = "second"
    /\ idx < NbPasses
    /\ \E st \in {Pass(idx + 1, [clean |-> clean_again, measures |-> measures_again],
                       conf_files)} :
          clean_again' = st.clean /\ measures_again' = st.measures
    /\ idx' = idx + 1
    /\ UNCHANGED <<utilVars, taggerVars, corpusVars, dialog, clean, measures, substitutions, pc>>

\* normalize_sentence and reduce_synonyms on the cleaned line.
PipeNormalizeAgain ==
    /\ pc = "second"
    /\ idx = NbPasses
    /\ \E norm \in {NormalizeSentence(clean_again)} :
           IF norm.none
           THEN pc' = "dropped_again" /\ UNCHANGED <<clean_again, measures_again>>
           ELSE /\ pc' = "done"
                /\ clean_again' = norm.clean
                /\ measures_again' =
                      IF conf_files.synonyms
                      THEN [measures_again EXCEPT
                               !.nbSynonyms = ReduceSynonyms(norm.clean).n]
                      ELSE measures_again
    /\ idx' = 0
    /\ UNCHANGED <<utilVars, taggerVars, corpusVars, dialog, clean, measures, substitutions>>

PipeNext == PipePass \/ PipeNormalize \/ PipePassAgain \/ PipeNormalizeAgain

SpecPipeline == PipeInit /\ [][PipeNext]_vars

\* The counters of the markers that the pipeline removes.
MarkerCounters ==
    {"nbPausesTotal", "nbPausesShort", "nbPausesMedium", "nbPausesLong",
     "nbPausesOther", "nbInterjections", "nbExpressions", "nbIncWords",
     "nbIncPhrases", "nbErrors", "nbRepetitions", "nbRetracings"}

\* C15: for a line that is not dropped, the pipeline run again on the
\* cleaned line returns the same text, and every marker count of the second
\* run is zero.
C15_PipelineIdempotent ==
    pc \in {"done", "dropped_again"} =>
        /\ pc = "done"
        /\ clean_again = clean
        /\ \A f \in MarkerCounters : measures_again[f] = 0

\* The number of times the literal lit stands in the line s.
Occurrences(s, lit) == ReplaceLiteral(s, 1, lit, "").n

\* C23: with the interjection "uh" configured, the interjection pass removes
\* every "&-uh" of the line whole (no "&-" is left behind), nbInterjections
\* is the number of "&-uh" of the line, and the incomplete-word pass that
\* follows counts the incomplete words of the line ("&ca") and none of the
\* interjections.
C23_MarkedInterjectionCountedOnce ==
    (pc = "first" /\ conf_files.interjections) =>
        /\ idx >= 3 => ~OccursFrom(clean, "&-", 1)
        /\ idx >= 5 =>
              /\ measures.nbInterjections = Occurrences(dialog, "&-uh")
              /\ measures.nbIncWords = Occurrences(dialog, "&ca")

(***************************************************************************)
(* multilingual-text-normalizer.py: clean_transcription                    *)
(***************************************************************************)

MaxTransLines == 3

\* Lines of a transcription: two that are kept, four that reduce to nothing
\* or to punctuation.
TransLines ==
    {"the girl (.) went .", "it's [/] it's ok", "(.) (..)", "&-uh .", "...", ""}

\* The transcriptions of at most n lines.
Transcriptions(n) == UNION {[1..k -> TransLines] : k \in 0..n}

TransInit ==
    /\ TaggerIdle /\ UtilIdle
    /\ transcription \in Transcriptions(MaxTransLines)
    /\ conf_files \in ConfChoices
    /\ complete_clean_dialog = "" /\ complete_clean_dialog_syn = ""
    /\ cleaning_measures = <<>>
    /\ line_no = 0
    /\ dialog = "" /\ clean = "" /\ measures = NoMeasures /\ substitutions = 0
    /\ clean_again = "" /\ measures_again = <<>>
    /\ file_names = <<>> /\ file_no = 0 /\ cleaning_results = <<>>
    /\ idx = 0
    /\ pc = "line"

\* for line in transcription: ... clean = line
TransLine ==
    /\ pc = "line"
    /\ line_no < Len(transcription)
    /\ line_no' = line_no + 1
    /\ clean' = transcription[line_no + 1]
    /\ measures' = NoMeasures
    /\ idx' = 0
    /\ pc' = "tasks"
    /\ UNCHANGED <<utilVars, taggerVars, dialog, substitutions, clean_again, measures_again,
                   conf_files, transcription, complete_clean_dialog,
                   complete_clean_dialog_syn, cleaning_measures, file_names, file_no,
                   cleaning_results>>

\* One cleaning task on the line.
TransTask ==
    /\ pc = "tasks"
    /\ idx < NbPasses
    /\ \E st \in {Pass(idx + 1, [clean |-> clean, measures |-> measures], conf_files)} :
          clean' = st.clean /\ measures' = st.measures
    /\ idx' = idx + 1
    /\ UNCHANGED <<utilVars, taggerVars, dialog, substitutions, clean_again, measures_again,
                   corpusVars, pc>>

\* clean = normalize_sentence(clean); if not clean: continue.  Otherwise the
\* line is added to the cleaned dialog, its synonyms are reduced when the
\* file is given and its record is appended.  normalize_sentence returning
\* no value for the line with synonyms reduced makes clean_syn + '\n' raise.
TransNormalize ==
    /\ pc = "tasks"
    /\ idx = NbPasses
    /\ \E norm \in {NormalizeSentence(clean)} :
       \E syn \in {ReduceSynonyms(norm.clean)} :
       \E clean_syn \in {NormalizeSentence(syn.text)} :
           IF norm.none
           THEN /\ pc' = "line"
                /\ UNCHANGED <<clean, measures, complete_clean_dialog,
                               complete_clean_dialog_syn, cleaning_measures>>
           ELSE IF conf_files.synonyms /\ clean_syn.none
           THEN /\ pc' = "raised"
                /\ clean' = norm.clean
                /\ complete_clean_dialog' = complete_clean_dialog \o norm.clean \o "\n"
                /\ UNCHANGED <<measures, complete_clean_dialog_syn, cleaning_measures>>
           ELSE /\ pc' = "line"
                /\ clean' = norm.clean
                /\ complete_clean_dialog' = complete_clean_dialog \o norm.clean \o "\n"
                /\ complete_clean_dialog_syn' =
                      IF conf_files.synonyms
                      THEN complete_clean_dialog_syn \o clean_syn.clean \o "\n"
                      ELSE complete_clean_dialog_syn
                /\ measures' =
                      IF conf_files.synonyms
                      THEN [measures EXCEPT !.nbSynonyms = syn.n]
                      ELSE measures
                /\ cleaning_measures' = Append(cleaning_measures, measures')
    /\ idx' = 0
    /\ UNCHANGED <<utilVars, taggerVars, dialog, substitutions, clean_again, measures_again,
                   conf_files, transcription, line_no, file_names, file_no,
                   cleaning_results>>

\* return cleaning_measures, complete_clean_dialog, complete_clean_dialog_syn
TransReturn ==
    /\ pc = "line"
    /\ line_no = Len(transcription)
    /\ pc' = "returned"
    /\ UNCHANGED <<utilVars, taggerVars, lineVars, corpusVars, idx>>

TransNext == TransLine \/ TransTask \/ TransNormalize \/ TransReturn

SpecTranscription == TransInit /\ [][TransNext]_vars

\* The loop is about to drop the line it has cleaned.
TransDrops == pc = "tasks" /\ idx = NbPasses /\ NormalizeSentence(clean).none

\* C14: a line that reduces to nothing or to punctuation adds no line to the
\* cleaned dialog but still gets a zero-valued measures record, so that the
\* records returned are as many as the lines passed in.
C14_DroppedLineKeepsZeroRecord ==
    [][/\ TransDrops =>
             /\ complete_clean_dialog' = complete_clean_dialog
             /\ cleaning_measures' = Append(cleaning_measures, NoMeasures)
       /\ pc' = "returned" => Len(cleaning_measures') = Len(transcription')]_vars

(***************************************************************************)
(* utils/corpus_util.py: extract_participant_info                          *)
(* multilingual-text-normalizer.py: process_corpus, on text files          *)
(***************************************************************************)

MaxFiles == 2

\* The files of the corpus directory and the sentences that
\* extract_transcript_lines returns for each of them.
CorpusFiles ==
    [name \in {"AD_101-1.txt", "HC_7-12.txt", "HC_8-1.txt", "notes.txt",
               ".DS_Store", "README.md"} |->
        CASE name = "AD_101-1.txt" ->
               <<"well (.) I (.) think (.) he went to the old red house",
                 "so (.) we (.) go (.) up (.) to (.) it and he is on a big hill by my old inn at an odd"
               >>
          [] name = "HC_7-12.txt" -> <<"the girl (.) went .", "&-uh .">>
          [] name = "HC_8-1.txt" -> <<"(.) (..)">>
          [] name = "notes.txt" -> <<"it's [/] it's ok">>
          [] OTHER -> <<>>]

\* os.listdir(corpus_path): at most n files, each listed once.
Listings(n) ==
    {q \in UNION {[1..k -> DOMAIN CorpusFiles] : k \in 0..n} :
        \A a, b \in DOMAIN q : a # b => q[a] # q[b]}

\* file_name.endswith(suffix)
NameEndsWith(s, suffix) == OccursAt(s, suffix, Len(s) - Len(suffix) + 1)

\* not file_name.startswith(".") and (is_txt_file or is_chat_file)
IsTranscript(file_name) ==
    /\ ~OccursAt(file_name, ".", 1)
    /\ NameEndsWith(file_name, ".txt") \/ NameEndsWith(file_name, ".cha")

\* [0-9a-z]
InterviewChars == AsciiLower \cup Digits

\* r'(.*)_([0-9]+)-([0-9a-z])+' searched in file_name: the positions of a
\* "_" that is followed by digits, "-" and a character of [0-9a-z].
InfoSeparators(file_name) ==
    {u \in 1..Len(file_name) :
        /\ Char(file_name, u) = "_"
        /\ ClassRun(file_name, u + 1, Digits) > 0
        /\ Char(file_name, u + 1 + ClassRun(file_name, u + 1, Digits)) = "-"
        /\ Char(file_name, u + 2 + ClassRun(file_name, u + 1, Digits)) \in InterviewChars}

\* extract_participant_info(file_name), the search having matched: (.*) is
\* greedy and takes the last separator, group 3 keeps the last character
\* its repetition has taken.
ParticipantInfo(file_name) ==
    LET u == Max(InfoSeparators(file_name))
        d == ClassRun(file_name, u + 1, Digits)
        e == ClassRun(file_name, u + d + 2, InterviewChars)
    IN  [status |-> Sub(file_name, 1, u - 1),
         idParticipant |-> Sub(file_name, u + 1, u + d),
         interviewNumber |-> Char(file_name, u + d + e + 1)]

CLEANING_MEASURES_DICT ==
    {"nbPausesTotal", "nbPausesShort", "nbPausesMedium", "nbPausesLong",
     "nbPausesOther", "nbExpressions", "nbInterjections", "nbIncWords",
     "nbIncPhrases", "nbErrors", "nbRepetitions", "nbRetracings", "nbSynonyms"}

\* The value of the last record, 0 if there is none.
LastMeasure(records, measure) ==
    IF records = <<>> THEN 0 ELSE records[Len(records)][measure]

\* sum(transcript[measure] for transcript in cleaning_measures_par)
RECURSIVE SumMeasure(_, _)
SumMeasure(records, measure) ==
    IF records = <<>> THEN 0
    ELSE records[1][measure] + SumMeasure(Tail(records), measure)

\* The keys measure + "Ratio".
RatioKeys == {measure \o "Ratio" : measure \in CLEANING_MEASURES_DICT}

\* The record process_corpus builds for one transcript; a ratio is kept as
\* its numerator and denominator.
Results(participant_info, records) ==
    LET total_word_count == SumMeasure(records, "totalWordCount")
    IN  [key \in {"idParticipant", "interviewNumber", "status", "totalWordCount"}
                 \cup CLEANING_MEASURES_DICT \cup RatioKeys |->
            CASE key = "idParticipant" -> participant_info.idParticipant
              [] key = "interviewNumber" -> participant_info.interviewNumber
              [] key = "status" -> participant_info.status
              [] key = "totalWordCount" -> total_word_count
              [] key \in CLEANING_MEASURES_DICT -> SumMeasure(records, key)
              [] OTHER ->
                   [num |-> SumMeasure(records, Sub(key, 1, Len(key) - Len("Ratio"))),
                    den |-> total_word_count]]

CorpusInit ==
    /\ TaggerIdle /\ UtilIdle
    /\ file_names \in Listings(MaxFiles)
    /\ conf_files \in ConfChoices
    /\ file_no = 0 /\ cleaning_results = <<>>
    /\ transcription = <<>> /\ line_no = 0
    /\ complete_clean_dialog = "" /\ complete_clean_dialog_syn = ""
    /\ cleaning_measures = <<>>
    /\ dialog = "" /\ clean = "" /\ measures = NoMeasures /\ substitutions = 0
    /\ clean_again = "" /\ measures_again = <<>>
    /\ idx = 0
    /\ pc = "file"

\* A hidden file, or one that is neither a text file nor a chat file.
CorpusSkip ==
    /\ pc = "file"
    /\ file_no < Len(file_names)
    /\ ~IsTranscript(file_names[file_no + 1])
    /\ file_no' = file_no + 1
    /\ UNCHANGED <<utilVars, taggerVars, lineVars, conf_files, transcription,
                   complete_clean_dialog, complete_clean_dialog_syn,
                   cleaning_measures, line_no, file_names, cleaning_results, idx, pc>>

\* extract_participant_info(file_name) on a name the pattern does not match:
\* re.search returns None and re_participant_info.groups() raises.
CorpusInfoRaises ==
    /\ pc = "file"
    /\ file_no < Len(file_names)
    /\ IsTranscript(file_names[file_no + 1])
    /\ InfoSeparators(file_names[file_no + 1]) = {}
    /\ file_no' = file_no + 1
    /\ pc' = "AttributeError"
    /\ UNCHANGED <<utilVars, taggerVars, lineVars, conf_files, transcription,
                   complete_clean_dialog, complete_clean_dialog_syn,
                   cleaning_measures, line_no, file_names, cleaning_results, idx>>

\* A text file with a name the pattern matches: its lines are read and
\* clean_transcription is called on them.
CorpusOpen ==
    /\ pc = "file"
    /\ file_no < Len(file_names)
    /\ IsTranscript(file_names[file_no + 1])
    /\ InfoSeparators(file_names[file_no + 1]) # {}
    /\ file_no' = file_no + 1
    /\ transcription' = CorpusFiles[file_names[file_no + 1]]
    /\ complete_clean_dialog' = "" /\ complete_clean_dialog_syn' = ""
    /\ cleaning_measures' = <<>>
    /\ line_no' = 0
    /\ pc' = "line"
    /\ UNCHANGED <<utilVars, taggerVars, lineVars, conf_files, file_names, cleaning_results, idx>>

\* clean_transcription has returned: the sums and the ratios of the file.
\* A transcript without a counted word makes the division raise.
CorpusAggregate ==
    /\ pc = "line"
    /\ line_no = Len(transcription)
    /\ IF SumMeasure(cleaning_measures, "totalWordCount") = 0
       THEN pc' = "ZeroDivisionError" /\ UNCHANGED cleaning_results
       ELSE /\ pc' = "file"
            /\ cleaning_results' =
                  Append(cleaning_results,
                         Results(ParticipantInfo(file_names[file_no]), cleaning_measures))
    /\ UNCHANGED <<utilVars, taggerVars, lineVars, conf_files, transcription,
                   complete_clean_dialog, complete_clean_dialog_syn,
                   cleaning_measures, line_no, file_names, file_no, idx>>

\* return cleaning_results
CorpusReturn ==
    /\ pc = "file"
    /\ file_no = Len(file_names)
    /\ pc' = "returned"
    /\ UNCHANGED <<utilVars, taggerVars, lineVars, corpusVars, idx>>

CorpusNext ==
    \/ CorpusSkip \/ CorpusInfoRaises \/ CorpusOpen
    \/ TransLine \/ TransTask \/ TransNormalize
    \/ CorpusAggregate \/ CorpusReturn

SpecCorpus == CorpusInit /\ [][CorpusNext]_vars

\* The total of a counter over the first k records.
RECURSIVE PrefixTotal(_, _, _)
PrefixTotal(records, measure, k) ==
    IF k = 0 THEN 0
    ELSE PrefixTotal(records, measure, k - 1) + records[k][measure]

\* A record has been produced for the transcript cleaned last.
RecordProduced == pc \in {"file", "returned"} /\ cleaning_results # <<>>

\* C19: in the record produced for a transcript every counter is the sum of
\* that counter over the per-line records, totalWordCount is the sum of the
\* per-line word counts and every ratio is the summed counter over the
\* summed word count; records with 3 and 5 pauses and 10 and 20 words give
\* 8 pauses and the ratio 8/30.
C19_AggregatedBySummation ==
    RecordProduced =>
        LET results == cleaning_results[Len(cleaning_results)]
            n == Len(cleaning_measures)
            words == PrefixTotal(cleaning_measures, "totalWordCount", n)
        IN  /\ results["totalWordCount"] = words
            /\ \A measure \in CLEANING_MEASURES_DICT :
                  /\ results[measure] = PrefixTotal(cleaning_measures, measure, n)
                  /\ results[measure \o "Ratio"] =
                        [num |-> PrefixTotal(cleaning_measures, measure, n),
                         den |-> words]
            /\ (/\ n = 2
                /\ cleaning_measures[1].nbPausesTotal = 3
                /\ cleaning_measures[2].nbPausesTotal = 5
                /\ cleaning_measures[1].totalWordCount = 10
                /\ cleaning_measures[2].totalWordCount = 20)
               => /\ results["nbPausesTotal"] = 8
                  /\ results["nbPausesTotalRatio"] = [num |-> 8, den |-> 30]

\* A transcript of two lines, 3 and 5 pauses, 10 and 20 words, aggregated.
C19_Witness ==
    /\ RecordProduced
    /\ Len(cleaning_measures) = 2
    /\ cleaning_measures[1].nbPausesTotal = 3 /\ cleaning_measures[2].nbPausesTotal = 5
    /\ cleaning_measures[1].totalWordCount = 10
    /\ cleaning_measures[2].totalWordCount = 20
    /\ cleaning_results[Len(cleaning_results)]["nbPausesTotal"] = 8
    /\ cleaning_results[Len(cleaning_results)]["totalWordCount"] = 30

\* The listing holds a transcript whose name the pattern does not match.
MalformedNameListed ==
    \E k \in 1..Len(file_names) :
        IsTranscript(file_names[k]) /\ InfoSeparators(file_names[k]) = {}

\* C20: a file name that does not match the convention does not abort the
\* batch: no exception leaves extract_participant_info, and with such a
\* name in the listing the driver still reaches every file of the listing.
C20_MalformedNameDoesNotAbort ==
    /\ pc # "AttributeError"
    /\ (MalformedNameListed /\ pc \notin {"file", "line", "tasks"}) =>
          (pc = "ZeroDivisionError" \/ file_no = Len(file_names))

\* The transcripts among the first k files of the listing.
TranscriptsListed(k) == {j \in 1..k : IsTranscript(file_names[j])}

\* C30: process_corpus produces a record for every transcript it has
\* processed, also for one whose lines are all dropped or hold no counted
\* word: the ratios of such a transcript raise no exception, and when the
\* driver is back at the file loop or has returned, cleaning_results holds
\* one record per transcript taken so far.
C30_ZeroWordTranscriptIsRecorded ==
    /\ pc # "ZeroDivisionError"
    /\ pc \in {"file", "returned"} =>
          Len(cleaning_results) = Cardinality(TranscriptsListed(file_no))

(***************************************************************************)
(* utils/data_util.py: save_tags_in_file                                   *)
(* utils/corpus_util.py: extract_freeling_tags                             *)
(* The list is written to a file and the file is read back.  The file is   *)
(* its text; os.linesep is the line feed.                                   *)
(***************************************************************************)

MaxLenTags == 3

\* Tokens of a tag list: two of one word, one whose surface form holds a
\* space, one whose fields are empty.
FileTokens ==
    { Tag("it", "it", "PRON"), Tag("looks", "look", "VERB"),
      Tag("New York", "new_york", "NOUN"), Tag("", "", "") }

\* str.split(sep) from position i of s on: the fields between the
\* occurrences of sep.
RECURSIVE SplitFrom(_, _, _)
SplitFrom(s, i, sep) ==
    IF \A j \in i..Len(s) : ~OccursAt(s, sep, j) THEN <<From(s, i)>>
    ELSE CHOOSE fields \in
             {<<Sub(s, i, j - 1)>> \o SplitFrom(s, j + Len(sep), sep) :
                 j \in {Min({k \in i..Len(s) : OccursAt(s, sep, k)})}} : TRUE

Split(s, sep) == SplitFrom(s, 1, sep)

\* for line in file: the lines of the text from position i on, each with
\* its line feed; a last line without one is a line as well.
RECURSIVE FileLinesFrom(_, _)
FileLinesFrom(text, i) ==
    IF i > Len(text) THEN <<>>
    ELSE IF \A j \in i..Len(text) : Char(text, j) # "\n" THEN <<From(text, i)>>
    ELSE CHOOSE rest \in
             {<<Sub(text, i, j)>> \o FileLinesFrom(text, j + 1) :
                 j \in {Min({k \in i..Len(text) : Char(text, k) = "\n"})}} : TRUE

FileLines(text) == FileLinesFrom(text, 1)

\* What save_tags_in_file writes for one element of the list.
WrittenFor(tag) ==
    IF tag.type = "Tag"
    THEN tag.original \o " " \o tag.lemma \o " " \o tag.tag \o "\n"
    ELSE "\n"

\* Tag(tag[0], tag[1], tag[2], tag[3]): four positional arguments.
FreelingTagCallRaises == Len(TagInitParams) < 4

TagFileInit ==
    /\ TaggerIdle /\ CleanerIdle /\ DialogsIdle /\ RunIdle
    /\ tags \in SeqsUpTo(FileTokens \cup {Separator}, MaxLenTags)
    /\ tag_file = "" /\ extracted = <<>>
    /\ idx = 0
    /\ pc = "write"

\* One iteration of: for tag in tags (data_util.py lines 20-24)
SaveWrite ==
    /\ pc = "write"
    /\ idx < Len(tags)
    /\ tag_file' = tag_file \o WrittenFor(tags[idx + 1])
    /\ idx' = idx + 1
    /\ UNCHANGED <<taggerVars, cleanerVars, dialogsVars, runVars, tags, extracted, pc>>

\* f.close(); return.  extract_freeling_tags opens the file.
SaveReturn ==
    /\ pc = "write"
    /\ idx = Len(tags)
    /\ pc' = "read"
    /\ idx' = 0
    /\ UNCHANGED <<taggerVars, cleanerVars, dialogsVars, runVars, tagFileVars>>

\* One iteration of: for line in file (corpus_util.py lines 58-63)
ExtractLine ==
    /\ pc = "read"
    /\ idx < Len(FileLines(tag_file))
    /\ \E tag \in {Split(FileLines(tag_file)[idx + 1], " ")} :
          IF Len(tag) = 4
          THEN IF FreelingTagCallRaises
               THEN pc' = "TypeError" /\ UNCHANGED extracted
               ELSE /\ extracted' = Append(extracted, Tag(tag[1], tag[2], tag[3]))
                    /\ UNCHANGED pc
          ELSE /\ extracted' = Append(extracted, Separator)
               /\ UNCHANGED pc
    /\ idx' = idx + 1
    /\ UNCHANGED <<taggerVars, cleanerVars, dialogsVars, runVars, tags, tag_file>>

\* file.close(); return tags
ExtractReturn ==
    /\ pc = "read"
    /\ idx = Len(FileLines(tag_file))
    /\ pc' = "returned"
    /\ UNCHANGED <<taggerVars, cleanerVars, dialogsVars, runVars, tagFileVars, idx>>

TagFileNext == SaveWrite \/ SaveReturn \/ ExtractLine \/ ExtractReturn

SpecTagFile == TagFileInit /\ [][TagFileNext]_vars

\* C22: reading back the file that save_tags_in_file has written raises no
\* exception and returns the list that was saved: the same tokens (surface
\* form, lemma, tag) and the same separators at the same positions.
C22_TagFileRoundTrip ==
    /\ pc # "TypeError"
    /\ pc = "returned" => extracted = tags

(***************************************************************************)
(* utils/corpus_util.py: extract_two_speaker_dialogs                       *)
(* An entry of a dialog list is the list curr_dialog: text, morphology,    *)
(* position, speaker code.                                                 *)
(***************************************************************************)

MaxChatLines == 4

\* Lines of a chat file: utterances of the two speakers, one without text,
\* a continuation line, a morphology line and a header line.
ChatLines ==
    { "*PAR:\tthe girl", "*EXP:\tok", "*PAR:\t", "\tand on", "%mor:\tn|girl",
      "@End" }

\* The codes process_corpus passes (multilingual-text-normalizer.py line 162).
speaker_1_code == "*PAR:"
speaker_2_code == "*EXP:"

morph_code == "%mor:\t"

\* [''] * 4
EmptyDialog == <<"", "", "", "">>

\* str.startswith
StartsWith(str, prefix) == OccursAt(str, prefix, 1)

\* line.replace("\t", " ")
ReplaceTabs(line) == ReplaceLiteral(line, 1, "\t", " ").text

DialogsInit ==
    /\ TaggerIdle /\ CleanerIdle /\ TagFileIdle /\ RunIdle
    /\ lines \in SeqsUpTo(ChatLines, MaxChatLines)
    /\ speaker_1_dialog = <<>> /\ speaker_2_dialog = <<>>
    /\ dialog_count = 0
    /\ is_morph_code = FALSE
    /\ curr_dialog = EmptyDialog
    /\ idx = 0
    /\ pc = "loop"

\* A line that starts with a tab (lines 82-87).
DialogsContinue ==
    /\ pc = "loop"
    /\ idx < Len(lines)
    /\ StartsWith(lines[idx + 1], "\t")
    /\ curr_dialog' =
          IF is_morph_code
          THEN [curr_dialog EXCEPT ![2] = @ \o ReplaceTabs(lines[idx + 1])]
          ELSE [curr_dialog EXCEPT ![1] = @ \o ReplaceTabs(lines[idx + 1])]
    /\ idx' = idx + 1
    /\ UNCHANGED <<taggerVars, cleanerVars, tagFileVars, runVars, lines, speaker_1_dialog,
                   speaker_2_dialog, dialog_count, is_morph_code, pc>>

\* A morphology line (lines 90-92).
DialogsMorphology ==
    /\ pc = "loop"
    /\ idx < Len(lines)
    /\ ~StartsWith(lines[idx + 1], "\t")
    /\ StartsWith(lines[idx + 1], morph_code)
    /\ curr_dialog' = [curr_dialog EXCEPT ![2] = From(lines[idx + 1], 7)]
    /\ is_morph_code' = TRUE
    /\ idx' = idx + 1
    /\ UNCHANGED <<taggerVars, cleanerVars, tagFileVars, runVars, lines, speaker_1_dialog,
                   speaker_2_dialog, dialog_count, pc>>

\* The dialog that a line of speaker code takes the place of: the text after
\* the code and the character that follows it, and the code.
StartedDialog(previous, line, code) ==
    [previous EXCEPT ![1] = From(line, Len(code) + 2), ![4] = code]

\* Any other line (lines 94-114): the current dialog, if it has a text and a
\* speaker line has been seen, is given its position and appended to the
\* list of its speaker; then a speaker line starts a dialog.
DialogsOther ==
    /\ pc = "loop"
    /\ idx < Len(lines)
    /\ ~StartsWith(lines[idx + 1], "\t")
    /\ ~StartsWith(lines[idx + 1], morph_code)
    /\ is_morph_code' = FALSE
    /\ \E closes \in {dialog_count > 0 /\ curr_dialog[1] # ""} :
       \E closed \in {[curr_dialog EXCEPT ![3] = dialog_count]} :
       \E previous \in {IF closes THEN EmptyDialog ELSE curr_dialog} :
          /\ speaker_1_dialog' =
                IF closes /\ curr_dialog[4] = speaker_1_code
                THEN Append(speaker_1_dialog, closed) ELSE speaker_1_dialog
          /\ speaker_2_dialog' =
                IF closes /\ curr_dialog[4] # speaker_1_code
                          /\ curr_dialog[4] = speaker_2_code
                THEN Append(speaker_2_dialog, closed) ELSE speaker_2_dialog
          /\ IF StartsWith(lines[idx + 1], speaker_1_code)
             THEN /\ curr_dialog' = StartedDialog(previous, lines[idx + 1], speaker_1_code)
                  /\ dialog_count' = dialog_count + 1
             ELSE IF StartsWith(lines[idx + 1], speaker_2_code)
             THEN /\ curr_dialog' = StartedDialog(previous, lines[idx + 1], speaker_2_code)
                  /\ dialog_count' = dialog_count + 1
             ELSE /\ curr_dialog' = previous
                  /\ UNCHANGED dialog_count
    /\ idx' = idx + 1
    /\ UNCHANGED <<taggerVars, cleanerVars, tagFileVars, runVars, lines, pc>>

\* return (speaker_1_dialog, speaker_2_dialog)
DialogsReturn ==
    /\ pc = "loop"
    /\ idx = Len(lines)
    /\ pc' = "returned"
    /\ UNCHANGED <<taggerVars, cleanerVars, tagFileVars, runVars, dialogsVars, idx>>

DialogsNext == DialogsContinue \/ DialogsMorphology \/ DialogsOther \/ DialogsReturn

SpecDialogs == DialogsInit /\ [][DialogsNext]_vars

IsSpeakerLine(line) ==
    StartsWith(line, speaker_1_code) \/ StartsWith(line, speaker_2_code)

SpeakerOf(line) ==
    IF StartsWith(line, speaker_1_code) THEN speaker_1_code ELSE speaker_2_code

\* The number of the utterance that starts at line i, counted from 1 over the
\* speaker lines.
UtteranceNo(ls, i) == Cardinality({j \in 1..i : IsSpeakerLine(ls[j])})

RECURSIVE ContinuationFrom(_, _)
\* The tab-prefixed lines from line k on, tabs replaced by spaces.
ContinuationFrom(ls, k) ==
    IF k <= Len(ls) /\ StartsWith(ls[k], "\t")
    THEN ReplaceTabs(ls[k]) \o ContinuationFrom(ls, k + 1)
    ELSE ""

\* The text of the utterance that starts at line i, with its continuation.
UtteranceText(ls, i) ==
    From(ls[i], Len(SpeakerOf(ls[i])) + 2) \o ContinuationFrom(ls, i + 1)

\* The positions of a dialog list increase.
InOrder(list) ==
    \A e, f \in 1..Len(list) : e < f => list[e][3] < list[f][3]

\* C27: extract_two_speaker_dialogs returns every utterance of the input, the
\* last one included: each speaker line with a non-empty text has exactly one
\* entry, under its speaker, with its text and continuation and its number,
\* and the entries of each list are in order of occurrence.
C27_EveryUtteranceReturned ==
    pc = "returned" =>
        /\ InOrder(speaker_1_dialog) /\ InOrder(speaker_2_dialog)
        /\ \A i \in 1..Len(lines) :
              IsSpeakerLine(lines[i]) /\ UtteranceText(lines, i) # "" =>
                 \E list \in {IF SpeakerOf(lines[i]) = speaker_1_code
                              THEN speaker_1_dialog ELSE speaker_2_dialog} :
                    Cardinality({e \in 1..Len(list) :
                                    /\ list[e][3] = UtteranceNo(lines, i)
                                    /\ list[e][1] = UtteranceText(lines, i)
                                    /\ list[e][4] = SpeakerOf(lines[i])}) = 1

(***************************************************************************)
(* english-pos-adjustment.py: process_corpus and adjust_pos_tags           *)
(* One Results object goes through the calls of adjust_pos_tags, one call  *)
(* per file; corpus_tags holds the list pos_tags of each call.             *)
(***************************************************************************)

MaxRunFiles == 2
MaxLenRun == 3

RunTokens ==
    { Tag("looks", "look", "VERB"), Tag("like", "like", "ADP"),
      Tag("throat", "throat", "NOUN"), Tag("'s", "'s", "ADP"),
      Tag("can", "can", "VERB"), Separator }

\* Results() (lines 41-46 and 95), the counters adjust_pos_tags uses.
NewResults ==
    [compose_count |-> 0, looks_like_count |-> 0, aux_verb_count |-> 0]

RECURSIVE DialogFrom(_, _)
\* The list dialog of lines 133-140: curr_sentence is appended at every
\* element that is not a Tag.
DialogFrom(pos, curr_sentence) ==
    IF pos = <<>> THEN <<>>
    ELSE IF Head(pos).type = "Tag"
    THEN DialogFrom(Tail(pos), Append(curr_sentence, Head(pos)))
    ELSE <<curr_sentence>> \o DialogFrom(Tail(pos), <<>>)

\* A looks_like_count argument that starts every call from zero.
LooksLikeCountArgumentReset(res) == 0

\* The counters passed at lines 143, 146 and 147.
ComposeCountArgument(res) == res.compose_count

LooksLikeCountArgument(res) == res.looks_like_count

AuxVerbCountArgument(res) == res.aux_verb_count

RunInit ==
    /\ CleanerIdle /\ TagFileIdle /\ DialogsIdle /\ TaggerIdle
    /\ \E files \in 0..MaxRunFiles :
          corpus_tags \in [1..files -> SeqsUpTo(RunTokens, MaxLenRun)]
    /\ corpus_file_no = 0
    /\ adjustment_results = NewResults
    /\ sentences = <<>> /\ sentence_no = 0 /\ adjusted_pos_tags = <<>>
    /\ stage = ""
    /\ idx = 0
    /\ pc = "file"

\* process_corpus takes a file and calls adjust_pos_tags (lines 98-106, 131-140).
RunFile ==
    /\ pc = "file"
    /\ corpus_file_no < Len(corpus_tags)
    /\ corpus_file_no' = corpus_file_no + 1
    /\ sentences' = DialogFrom(corpus_tags[corpus_file_no + 1], <<>>)
    /\ sentence_no' = 0
    /\ adjusted_pos_tags' = <<>>
    /\ pc' = "sentence"
    /\ UNCHANGED <<taggerVars, cleanerVars, tagFileVars, dialogsVars, corpus_tags,
                   adjustment_results, stage, idx>>

\* for sentence in dialog: compose_tagging is called (lines 142-143).
RunSentence ==
    /\ pc = "sentence"
    /\ sentence_no < Len(sentences)
    /\ sentence_no' = sentence_no + 1
    /\ stage' = "compose"
    /\ current_sentence' = sentences[sentence_no + 1]
    /\ adjusted_sentence' = <<>>
    /\ adjustment_count' = ComposeCountArgument(adjustment_results)
    /\ count_in' = ComposeCountArgument(adjustment_results)
    /\ be_pos_flag' = FALSE
    /\ idx' = 0
    /\ pc' = "loop"
    /\ UNCHANGED <<frenchVars, look_flag, it_flag, as_flag, cleanerVars, tagFileVars,
                   dialogsVars, corpus_tags, corpus_file_no, sentences,
                   adjusted_pos_tags, adjustment_results>>

\* The iterations and the return of compose_tagging.
RunCompose == stage = "compose" /\ ComposeNext

\* compose_tagging has returned: its counter is stored and extract_looks_like
\* is called on its list (line 146).
RunAfterCompose ==
    /\ stage = "compose"
    /\ pc = "returned"
    /\ \E res \in {[adjustment_results EXCEPT !.compose_count = adjustment_count]} :
          /\ adjustment_results' = res
          /\ adjustment_count' = LooksLikeCountArgument(res)
          /\ count_in' = LooksLikeCountArgument(res)
    /\ stage' = "looks_like"
    /\ current_sentence' = adjusted_sentence
    /\ adjusted_sentence' = <<>>
    /\ look_flag' = FALSE /\ it_flag' = FALSE /\ as_flag' = FALSE
    /\ idx' = 0
    /\ pc' = "loop"
    /\ UNCHANGED <<frenchVars, be_pos_flag, cleanerVars, tagFileVars, dialogsVars,
                   corpus_tags, corpus_file_no, sentences, sentence_no,
                   adjusted_pos_tags>>

\* The iterations and the return of extract_looks_like.
RunLooksLike == stage = "looks_like" /\ LookNext

\* extract_looks_like has returned: its counter is stored and
\* identify_auxiliary_verbs is called on its list (line 147).
RunAfterLooksLike ==
    /\ stage = "looks_like"
    /\ pc = "returned"
    /\ \E res \in {[adjustment_results EXCEPT !.looks_like_count = adjustment_count]} :
          /\ adjustment_results' = res
          /\ adjustment_count' = AuxVerbCountArgument(res)
          /\ count_in' = AuxVerbCountArgument(res)
    /\ stage' = "aux"
    /\ current_sentence' = adjusted_sentence
    /\ adjusted_sentence' = <<>>
    /\ idx' = 0
    /\ pc' = "loop"
    /\ UNCHANGED <<frenchVars, flagVars, cleanerVars, tagFileVars, dialogsVars,
                   corpus_tags, corpus_file_no, sentences, sentence_no,
                   adjusted_pos_tags>>

\* The iterations and the return of identify_auxiliary_verbs.
RunAuxiliary == stage = "aux" /\ AuxNext

\* identify_auxiliary_verbs has returned: its counter is stored, its list and
\* a separator are added to adjusted_pos_tags (lines 147-150).
RunAfterAuxiliary ==
    /\ stage = "aux"
    /\ pc = "returned"
    /\ adjustment_results' = [adjustment_results EXCEPT !.aux_verb_count = adjustment_count]
    /\ adjusted_pos_tags' = Append(adjusted_pos_tags \o adjusted_sentence, Separator)
    /\ stage' = ""
    /\ pc' = "sentence"
    /\ UNCHANGED <<taggerVars, cleanerVars, tagFileVars, dialogsVars, corpus_tags,
                   corpus_file_no, sentences, sentence_no, idx>>

\* return adjusted_pos_tags, results (line 152); the list is saved (line 109).
RunAdjustReturn ==
    /\ pc = "sentence"
    /\ sentence_no = Len(sentences)
    /\ pc' = "file"
    /\ UNCHANGED <<taggerVars, utilVars, cleanerVars, idx>>

\* return results (line 113)
RunReturn ==
    /\ pc = "file"
    /\ corpus_file_no = Len(corpus_tags)
    /\ pc' = "done"
    /\ UNCHANGED <<taggerVars, utilVars, cleanerVars, idx>>

RunNext ==
    \/ RunFile \/ RunSentence \/ RunCompose \/ RunAfterCompose \/ RunLooksLike
    \/ RunAfterLooksLike \/ RunAuxiliary \/ RunAfterAuxiliary \/ RunAdjustReturn
    \/ RunReturn

SpecRun == RunInit /\ [][RunNext]_vars

\* The lemmas of the tokens a rule of the three passes can delete: throat
\* (compose_tagging) and the words of the looks-like constructions.
RuleDeletedLemmas == {"throat", "it", "look", "as", "like", "though", "if"}

\* The separators of a tag list and the tokens no rule deletes, in order.
Surviving(pos) ==
    SelectSeq(pos, LAMBDA t : t = Separator \/ t.lemma \notin RuleDeletedLemmas)

SeparatorCount(pos) == Cardinality({i \in 1..Len(pos) : pos[i] = Separator})

\* C26: when adjust_pos_tags has returned, its output has one separator per
\* separator of its input, and the separators and the tokens that no rule
\* deletes are in the output in the order of the input, the tokens after the
\* last separator included.
C26_SentenceStructurePreserved ==
    (pc = "file" /\ corpus_file_no >= 1) =>
        /\ SeparatorCount(adjusted_pos_tags) = SeparatorCount(corpus_tags[corpus_file_no])
        /\ Surviving(adjusted_pos_tags) = Surviving(corpus_tags[corpus_file_no])

RECURSIVE LooksLikeIncrements(_, _, _, _)
\* What extract_looks_like adds to its counter on the sentence s, entered
\* with the given flags.
LooksLikeIncrements(s, look, it, as) ==
    IF s = <<>> THEN 0
    ELSE IF Head(s).lemma = "it" THEN LooksLikeIncrements(Tail(s), look, TRUE, as)
    ELSE IF Head(s).lemma = "look" THEN LooksLikeIncrements(Tail(s), TRUE, it, as)
    ELSE IF Head(s).lemma = "like"
    THEN LikeBranchCount(0, look, it) + LooksLikeIncrements(Tail(s), FALSE, FALSE, FALSE)
    ELSE IF Head(s).lemma = "as"
    THEN LooksLikeIncrements(Tail(s), look, it, look \/ as)
    ELSE IF Head(s).lemma \in {"though", "if"}
    THEN ThoughIfBranchCount(0, as, it) + LooksLikeIncrements(Tail(s), FALSE, FALSE, FALSE)
    ELSE LooksLikeIncrements(Tail(s), FALSE, FALSE, FALSE)

\* The repairs compose_tagging counts on the sentence s.
ComposeIncrements(s) ==
    Cardinality({i \in 1..Len(s) :
                    ~IsThroat(s[i]) /\ ComposeRepairs(s[i], AfterPossessiveS(s, i))})

RECURSIVE AllSentences(_)
\* The sentences of the files, one after the other.
AllSentences(files) ==
    IF files = <<>> THEN <<>>
    ELSE DialogFrom(Head(files), <<>>) \o AllSentences(Tail(files))

RECURSIVE SumLooksLike(_)
SumLooksLike(ss) ==
    IF ss = <<>> THEN 0
    ELSE LooksLikeIncrements(NonThroat(Head(ss)), FALSE, FALSE, FALSE)
            + SumLooksLike(Tail(ss))

RECURSIVE SumCompose(_)
SumCompose(ss) ==
    IF ss = <<>> THEN 0 ELSE ComposeIncrements(Head(ss)) + SumCompose(Tail(ss))

\* What the pass of the given stage has added to the counter it was passed,
\* at the step that stores its result; 0 at any other step.
StoredIncrement(pass) ==
    IF stage = pass /\ pc = "returned" THEN adjustment_count - count_in ELSE 0

\* C21: over a corpus run the three counters are never negative, each step
\* leaves every counter as it is or adds to it what the pass that has just
\* returned added to the value it was passed, and when the last file is done
\* looks_like_count and compose_count are the sums, over the sentences of all
\* files taken as one list, of what the pass adds on the sentence alone.
C21_CountersCumulative ==
    /\ [](pc \in {"file", "sentence", "loop", "returned", "raised", "done"} =>
            /\ adjustment_results.compose_count >= 0
            /\ adjustment_results.looks_like_count >= 0
            /\ adjustment_results.aux_verb_count >= 0)
    /\ [][ /\ adjustment_results'.compose_count =
                 adjustment_results.compose_count + StoredIncrement("compose")
           /\ adjustment_results'.looks_like_count =
                 adjustment_results.looks_like_count + StoredIncrement("looks_like")
           /\ adjustment_results'.aux_verb_count =
                 adjustment_results.aux_verb_count + StoredIncrement("aux")
           /\ StoredIncrement("compose") >= 0
           /\ StoredIncrement("looks_like") >= 0
           /\ StoredIncrement("aux") >= 0 ]_vars
    /\ [](pc = "done" =>
            /\ adjustment_results.looks_like_count = SumLooksLike(AllSentences(corpus_tags))
            /\ adjustment_results.compose_count = SumCompose(AllSentences(corpus_tags)))

\* Two files have each added to looks_like_count.
C21_Witness ==
    /\ pc = "done"
    /\ Len(corpus_tags) = 2
    /\ adjustment_results.looks_like_count = 2
    /\ SumLooksLike(DialogFrom(corpus_tags[1], <<>>)) = 1
    /\ SumLooksLike(DialogFrom(corpus_tags[2], <<>>)) = 1

Passes == {"compose", "looks_like", "aux"}

\* C25: no step of a corpus run changes a tag list passed to adjust_pos_tags;
\* the sentences adjust_pos_tags has split off stay those of its input; and
\* no step of compose_tagging, extract_looks_like or identify_auxiliary_verbs,
\* its return included, changes the list the pass was given or a token of it:
\* what a pass drops or replaces, it drops or replaces in its own list.
C25_InputsNotMutated ==
    /\ [][corpus_tags' = corpus_tags]_vars
    /\ [](corpus_file_no >= 1 =>
             sentences = DialogFrom(corpus_tags[corpus_file_no], <<>>))
    /\ [][(stage \in Passes /\ pc = "loop") => current_sentence' = current_sentence]_vars
    /\ []((stage = "compose" /\ pc \in {"loop", "returned", "raised"}) =>
             current_sentence = sentences[sentence_no])

\* extract_looks_like has returned a list shorter than the one it was given,
\* which is still the sentence of the caller.
C25_Witness ==
    /\ stage = "looks_like"
    /\ pc = "returned"
    /\ Len(adjusted_sentence) < Len(current_sentence)
    /\ current_sentence = sentences[sentence_no]
    /\ adjustment_count > count_in

====
